---- MODULE Spec2Model ----
(***************************************************************************)
(* Model of the two image-editor scripts of damenweb/images:               *)
(*   src/script.js          (table of stories, one detail row per story)   *)
(*   src/unnamed/part_000   (one current story and its linked sub-story)   *)
(* Both fetch story JSON from the CMS, locate 'bynder_image' nodes, track  *)
(* edits of file name / alt text and write the edited stories back.        *)
(*                                                                         *)
(* JSON values are tagged records, so that values of different JavaScript  *)
(* types can be compared (===) without a type error:                       *)
(*   [t |-> "undef"]  [t |-> "null"]                                       *)
(*   [t |-> "str", s |-> <<chars>>]      a string is a sequence of chars   *)
(*   [t |-> "num", n |-> 7]                                                *)
(*   [t |-> "arr", a |-> <<values>>]                                       *)
(*   [t |-> "obj", o |-> << <<key, value>>, ... >>]  keys in insertion     *)
(*                                                   order, as for..in     *)
(* Object references are modelled by paths: the sequence of child          *)
(* positions that leads from the root of a tree to the node.               *)
(***************************************************************************)
EXTENDS Integers, Sequences, FiniteSets, TLC

\* ------------------------------------------------------------------ JSON

JUndef == [t |-> "undef"]
JNull == [t |-> "null"]
JStr(s) == [t |-> "str", s |-> s]
JNum(n) == [t |-> "num", n |-> n]
JArr(items) == [t |-> "arr", a |-> items]
JObj(props) == [t |-> "obj", o |-> props]

\* A one-word string constant such as 'bynder_image'.
Word(w) == JStr(<<w>>)

\* typeof v === 'object' && v !== null
IsObjectLike(v) == v.t \in {"arr", "obj"}

\* JavaScript truthiness of a value used as a condition.
Truthy(v) ==
    CASE v.t = "undef" -> FALSE
      [] v.t = "null" -> FALSE
      [] v.t = "str" -> v.s # <<>>
      [] v.t = "num" -> v.n # 0
      [] OTHER -> TRUE

\* The positions of the own properties of an object named key.
KeyPositions(v, key) == {i \in 1..Len(v.o) : v.o[i][1] = key}

\* obj.key / obj[key]: undefined when the property is absent or obj is not an
\* object (arrays and strings have no property of the names read here).
Get(v, key) ==
    IF v.t = "obj" /\ KeyPositions(v, key) # {}
    THEN v.o[CHOOSE i \in KeyPositions(v, key) : TRUE][2]
    ELSE JUndef

\* obj.key = val: the property keeps its place, a new one is added at the end.
Put(v, key, val) ==
    IF KeyPositions(v, key) # {}
    THEN [v EXCEPT !.o = [i \in 1..Len(v.o) |->
                             IF v.o[i][1] = key THEN <<key, val>> ELSE v.o[i]]]
    ELSE [v EXCEPT !.o = Append(v.o, <<key, val>>)]

\* v.length > 0, for an array or a string (undefined > 0 is false otherwise).
HasLength(v) ==
    CASE v.t = "arr" -> Len(v.a) > 0
      [] v.t = "str" -> Len(v.s) > 0
      [] OTHER -> FALSE

\* v[0] of a non-empty array or string.
First(v) ==
    CASE v.t = "arr" /\ Len(v.a) > 0 -> v.a[1]
      [] v.t = "str" /\ Len(v.s) > 0 -> JStr(<<v.s[1]>>)
      [] OTHER -> JUndef

\* The children of an array or an object, in enumeration order.
Children(v) ==
    CASE v.t = "arr" -> v.a
      [] v.t = "obj" -> [i \in 1..Len(v.o) |-> v.o[i][2]]
      [] OTHER -> <<>>

\* The node a path leads to.
RECURSIVE NodeAt(_, _)
NodeAt(v, path) ==
    IF path = <<>> THEN v ELSE NodeAt(Children(v)[Head(path)], Tail(path))

\* The tree with the node at path replaced (an in-place mutation of that node).
RECURSIVE ReplaceAt(_, _, _)
ReplaceAt(v, path, new) ==
    IF path = <<>> THEN new
    ELSE IF v.t = "arr"
    THEN [v EXCEPT !.a[Head(path)] = ReplaceAt(v.a[Head(path)], Tail(path), new)]
    ELSE [v EXCEPT !.o[Head(path)] =
             <<v.o[Head(path)][1], ReplaceAt(v.o[Head(path)][2], Tail(path), new)>>]

\* ---------------------------------------------------------------- strings

UpperCase == <<"A", "B", "C", "D", "E", "F", "G", "H", "I", "J", "K", "L", "M",
               "N", "O", "P", "Q", "R", "S", "T", "U", "V", "W", "X", "Y", "Z">>
LowerCase == <<"a", "b", "c", "d", "e", "f", "g", "h", "i", "j", "k", "l", "m",
               "n", "o", "p", "q", "r", "s", "t", "u", "v", "w", "x", "y", "z">>

\* One character of String.prototype.toLowerCase().
LowerChar(c) ==
    IF \E i \in 1..Len(UpperCase) : UpperCase[i] = c
    THEN LowerCase[CHOOSE i \in 1..Len(UpperCase) : UpperCase[i] = c]
    ELSE c

\* The regular expression class \s.
IsSpace(c) == c \in {" ", "\t", "\n"}

\* s.replace(/\s+/g, '-'): every maximal run of white space becomes one '-'.
RECURSIVE ReplaceSpaceRuns(_, _)
ReplaceSpaceRuns(s, i) ==
    IF i > Len(s) THEN <<>>
    ELSE IF ~IsSpace(s[i]) THEN <<s[i]>> \o ReplaceSpaceRuns(s, i + 1)
    ELSE IF i > 1 /\ IsSpace(s[i - 1]) THEN ReplaceSpaceRuns(s, i + 1)
    ELSE <<"-">> \o ReplaceSpaceRuns(s, i + 1)

\* s.replace(/\s+/g, '-').toLowerCase()   (part_000, line 682)
NormalizeFileName(s) ==
    LET r == ReplaceSpaceRuns(s, 1) IN [i \in 1..Len(r) |-> LowerChar(r[i])]

\* s.lastIndexOf('/') as a 1-based position, 0 for JavaScript's -1.
LastSlash(s) ==
    IF \E i \in 1..Len(s) : s[i] = "/"
    THEN CHOOSE i \in 1..Len(s) : s[i] = "/" /\ \A j \in (i + 1)..Len(s) : s[j] # "/"
    ELSE 0

\* oldUrl.substring(0, lastSlashIndex + 1)
UrlBase(url) == SubSeq(url, 1, LastSlash(url))

\* The decimal digits of a natural number, as String(n) gives them.
Digits == <<"0", "1", "2", "3", "4", "5", "6", "7", "8", "9">>
RECURSIVE NumChars(_)
NumChars(n) ==
    IF n < 10 THEN <<Digits[n + 1]>> ELSE NumChars(n \div 10) \o <<Digits[(n % 10) + 1]>>

\* A value stored in element.dataset and read back: always a string.
\* String(7) is "7", String(undefined) is "undefined".
DatasetString(v) ==
    CASE v.t = "str" -> v
      [] v.t = "num" -> JStr(NumChars(v.n))
      [] v.t = "undef" -> Word("undefined")
      [] OTHER -> Word(v.t)

\* ------------------------------------------------- ordered maps and sets
\* A JavaScript Map is a sequence of <<key, value>> pairs in insertion order;
\* a Set is a sequence without repetitions.

MapHas(m, k) == \E i \in 1..Len(m) : m[i][1] = k
MapGet(m, k) == m[CHOOSE i \in 1..Len(m) : m[i][1] = k][2]
MapSet(m, k, v) ==
    IF MapHas(m, k)
    THEN [i \in 1..Len(m) |-> IF m[i][1] = k THEN <<k, v>> ELSE m[i]]
    ELSE Append(m, <<k, v>>)
MapDelete(m, k) == SelectSeq(m, LAMBDA e : e[1] # k)
MapKeys(m) == {m[i][1] : i \in 1..Len(m)}

SetHas(s, x) == \E i \in 1..Len(s) : s[i] = x
SetAdd(s, x) == IF SetHas(s, x) THEN s ELSE Append(s, x)
SetDelete(s, x) == SelectSeq(s, LAMBDA e : e # x)

\* Every path of a sequence of paths, below child i.
Below(i, paths) == [k \in 1..Len(paths) |-> <<i>> \o paths[k]]

\* ------------------------------------------------------- image locators

BynderImage == Word("bynder_image")

\* script.js line 149: the test that makes an object an image node.
IsImageNode(obj) ==
    /\ Get(obj, "component") = BynderImage
    /\ Truthy(Get(obj, "image"))
    /\ HasLength(Get(obj, "image"))
    /\ Truthy(Get(First(Get(obj, "image")), "databaseId"))

\* script.js extractImages: the image nodes of a tree, as paths, the node
\* itself before the nodes below it, children in enumeration order.
RECURSIVE extractImages(_), extractImagesFrom(_, _)
extractImages(obj) ==
    IF ~IsObjectLike(obj) THEN <<>>
    ELSE (IF IsImageNode(obj) THEN << <<>> >> ELSE <<>>) \o extractImagesFrom(obj, 1)
extractImagesFrom(obj, i) ==
    IF i > Len(Children(obj)) THEN <<>>
    ELSE Below(i, extractImages(Children(obj)[i])) \o extractImagesFrom(obj, i + 1)

\* script.js line 149 reads obj.image[0].databaseId once the tag matches and
\* obj.image has a positive length: a TypeError when obj.image[0] is null or
\* undefined.
ImageTestThrows(obj) ==
    /\ Get(obj, "component") = BynderImage
    /\ Truthy(Get(obj, "image"))
    /\ HasLength(Get(obj, "image"))
    /\ First(Get(obj, "image")).t \in {"null", "undef"}

\* script.js extractImages raises a TypeError: the test of some node it visits
\* does (nothing catches it inside the traversal).
RECURSIVE extractImagesThrows(_)
extractImagesThrows(obj) ==
    /\ IsObjectLike(obj)
    /\ \/ ImageTestThrows(obj)
       \/ \E i \in 1..Len(Children(obj)) : extractImagesThrows(Children(obj)[i])

\* script.js lines 179-184: the test of the write-back lookup.
HasBynderId(obj, imageBynderId) ==
    /\ Get(obj, "component") = BynderImage
    /\ Truthy(Get(obj, "image"))
    /\ HasLength(Get(obj, "image"))
    /\ Get(First(Get(obj, "image")), "databaseId") = imageBynderId

\* script.js findImageInStoryContentById: <<path>> of the first node found,
\* <<>> for null.
RECURSIVE findRecursive(_, _), findRecursiveFrom(_, _, _)
findRecursive(obj, imageBynderId) ==
    IF ~IsObjectLike(obj) THEN <<>>
    ELSE IF HasBynderId(obj, imageBynderId) THEN << <<>> >>
    ELSE findRecursiveFrom(obj, imageBynderId, 1)
findRecursiveFrom(obj, imageBynderId, i) ==
    IF i > Len(Children(obj)) THEN <<>>
    ELSE LET found == findRecursive(Children(obj)[i], imageBynderId)
         IN IF found # <<>> THEN Below(i, found)
            ELSE findRecursiveFrom(obj, imageBynderId, i + 1)
findImageInStoryContentById(storyContent, imageBynderId) ==
    findRecursive(storyContent, imageBynderId)

\* part_000 lines 190 and 678: a property that holds an array of image wrappers.
IsWrapperArray(v) ==
    /\ v.t = "arr"
    /\ Len(v.a) > 0
    /\ Truthy(v.a[1])
    /\ Get(v.a[1], "component") = BynderImage

\* part_000 line 192: the wrappers of such an array that are collected.
IsCollected(imageWrapper) ==
    /\ Truthy(Get(imageWrapper, "image"))
    /\ Get(imageWrapper, "image").t = "arr"
    /\ Len(Get(imageWrapper, "image").a) > 0
    /\ Truthy(Get(Get(imageWrapper, "image").a[1], "databaseId"))

\* The collected wrappers of a wrapper array that is child i of its object.
RECURSIVE CollectedIn(_, _, _)
CollectedIn(arr, i, k) ==
    IF k > Len(arr.a) THEN <<>>
    ELSE (IF IsCollected(arr.a[k]) THEN << <<i, k>> >> ELSE <<>>)
         \o CollectedIn(arr, i, k + 1)

\* part_000 collectImagesRecursive: the collected wrappers of a tree, as paths.
RECURSIVE collectImagesRecursive(_), collectImagesFrom(_, _)
collectImagesRecursive(obj) ==
    IF ~IsObjectLike(obj) THEN <<>> ELSE collectImagesFrom(obj, 1)
collectImagesFrom(obj, i) ==
    IF i > Len(Children(obj)) THEN <<>>
    ELSE (IF obj.t = "obj" /\ IsWrapperArray(Children(obj)[i])
          THEN CollectedIn(Children(obj)[i], i, 1) ELSE <<>>)
         \o Below(i, collectImagesRecursive(Children(obj)[i]))
         \o collectImagesFrom(obj, i + 1)

\* part_000 line 192 reads imageWrapper.image of every element of a wrapper
\* array, and image[0].databaseId of a non-empty image array: a TypeError when
\* the element, or image[0], is null or undefined.
WrapperTestThrows(imageWrapper) ==
    \/ imageWrapper.t \in {"null", "undef"}
    \/ /\ Truthy(Get(imageWrapper, "image"))
       /\ Get(imageWrapper, "image").t = "arr"
       /\ Len(Get(imageWrapper, "image").a) > 0
       /\ Get(imageWrapper, "image").a[1].t \in {"null", "undef"}

\* part_000 lines 199-200 read image[0].files.thumbnail.url and
\* image[0].files.transformBaseUrl.url of a collected wrapper: a TypeError when
\* files, thumbnail or transformBaseUrl is null or undefined.
RecordThrows(imageWrapper) ==
    LET files == Get(First(Get(imageWrapper, "image")), "files")
    IN /\ ~WrapperTestThrows(imageWrapper)
       /\ IsCollected(imageWrapper)
       /\ \/ files.t \in {"null", "undef"}
          \/ Get(files, "thumbnail").t \in {"null", "undef"}
          \/ Get(files, "transformBaseUrl").t \in {"null", "undef"}

\* part_000 collectImagesRecursive raises a TypeError.
RECURSIVE collectImagesThrows(_)
collectImagesThrows(obj) ==
    /\ IsObjectLike(obj)
    /\ \E i \in 1..Len(Children(obj)) :
           \/ /\ obj.t = "obj"
              /\ IsWrapperArray(Children(obj)[i])
              /\ \E k \in 1..Len(Children(obj)[i].a) :
                     \/ WrapperTestThrows(Children(obj)[i].a[k])
                     \/ RecordThrows(Children(obj)[i].a[k])
           \/ collectImagesThrows(Children(obj)[i])

\* ----------------------------------------------------- image node fields

\* imgObj.image[0]
Descriptor(imageObj) == First(Get(imageObj, "image"))
NameOf(imageObj) == Get(Descriptor(imageObj), "name")
AltOf(imageObj) == Get(imageObj, "alt")
\* bynderImage.files.transformBaseUrl.url
UrlOf(imageObj) ==
    Get(Get(Get(Descriptor(imageObj), "files"), "transformBaseUrl"), "url")
IdOf(imageObj) == Get(Descriptor(imageObj), "databaseId")
UidOf(imageObj) == Get(imageObj, "_uid")

\* imageObj.image[0] = d, the other elements of the array kept.
WithDescriptor(imageObj, d) ==
    Put(imageObj, "image", JArr([Get(imageObj, "image").a EXCEPT ![1] = d]))
\* bynderImage.name = s
WithName(imageObj, s) ==
    WithDescriptor(imageObj, Put(Descriptor(imageObj), "name", JStr(s)))
\* A patcher that also marks the node it sets the alt text of.
WithAltMarked(imageObj, s) == Put(Put(imageObj, "alt", JStr(s)), "edited", JStr(s))
\* imageObj.alt = s
WithAlt(imageObj, s) == Put(imageObj, "alt", JStr(s))
\* bynderImage.files.transformBaseUrl.url = s
WithUrl(imageObj, s) ==
    LET d == Descriptor(imageObj)
        files == Get(d, "files")
        tbu == Get(files, "transformBaseUrl")
    IN WithDescriptor(imageObj,
           Put(d, "files", Put(files, "transformBaseUrl", Put(tbu, "url", JStr(s)))))

\* ------------------------------------------------------------- patchers

\* script.js lines 779-787: the transform URL derived from the new file name.
DerivedUrl(oldTransformUrl, newFileName) ==
    IF LastSlash(oldTransformUrl) # 0
    THEN UrlBase(oldTransformUrl) \o newFileName
    ELSE newFileName

\* script.js lines 766-789: the changes of one modification applied to the
\* image node found for it.
ApplyModification(imageObj, mod) ==
    LET fileNameChanged == NameOf(imageObj) # JStr(mod.newFileName)
        named == IF fileNameChanged THEN WithName(imageObj, mod.newFileName)
                 ELSE imageObj
        alted == IF AltOf(named) # JStr(mod.newAlt) THEN WithAlt(named, mod.newAlt)
                 ELSE named
    IN IF fileNameChanged
       THEN WithUrl(alted, DerivedUrl(UrlOf(imageObj).s, mod.newFileName))
       ELSE alted

\* script.js lines 760-793: every modification of one story applied, in the
\* Map's order, to the content of the freshly fetched story.  mods is the
\* sequence of <<imageBynderId, mod>>; the result is the content and
\* actualChangesApplied.
RECURSIVE ApplyModifications(_, _, _, _)
ApplyModifications(content, mods, i, applied) ==
    IF i > Len(mods) THEN [content |-> content, applied |-> applied]
    ELSE LET found == findImageInStoryContentById(content, mods[i][1])
         IN IF found # <<>>
            THEN ApplyModifications(
                     ReplaceAt(content, found[1],
                               ApplyModification(NodeAt(content, found[1]), mods[i][2])),
                     mods, i + 1, TRUE)
            ELSE ApplyModifications(content, mods, i + 1, applied)

\* part_000 lines 692-700: the transform URL after a change of the file name.
DerivedUrlOrOld(oldTransformUrl, fileName) ==
    IF LastSlash(oldTransformUrl) # 0
    THEN UrlBase(oldTransformUrl) \o fileName
    ELSE oldTransformUrl

\* part_000 lines 681-700: the wrapper whose _uid matched, patched.  The file
\* name of the modification is normalised first (line 682).
PatchWrapper(imageWrapper, mod) ==
    LET fileName == NormalizeFileName(mod.fileName)
        fileNameChanged == fileName # mod.originalFileName
        named == IF fileNameChanged THEN WithName(imageWrapper, fileName)
                 ELSE imageWrapper
        alted == IF mod.altText # mod.originalAlt THEN WithAlt(named, mod.altText)
                 ELSE named
    IN IF fileNameChanged
       THEN WithUrl(alted, DerivedUrlOrOld(UrlOf(imageWrapper).s, fileName))
       ELSE alted

\* part_000 line 680
UidMatches(imageWrapper, mod) == Get(imageWrapper, "_uid") = mod.uid

\* part_000 updateImageRecursive: the tree with every wrapper of a wrapper
\* array whose _uid matches patched; a wrapper array is not searched further.
RECURSIVE updateImageRecursive(_, _)
updateImageRecursive(obj, mod) ==
    IF ~IsObjectLike(obj) THEN obj
    ELSE IF obj.t = "arr"
    THEN JArr([i \in 1..Len(obj.a) |-> updateImageRecursive(obj.a[i], mod)])
    ELSE JObj([i \in 1..Len(obj.o) |->
             IF IsWrapperArray(obj.o[i][2])
             THEN <<obj.o[i][1],
                    JArr([k \in 1..Len(obj.o[i][2].a) |->
                            IF UidMatches(obj.o[i][2].a[k], mod)
                            THEN PatchWrapper(obj.o[i][2].a[k], mod)
                            ELSE obj.o[i][2].a[k]])>>
             ELSE <<obj.o[i][1], updateImageRecursive(obj.o[i][2], mod)>>])

\* Whether updateImageRecursive reaches a wrapper with the modification's
\* _uid (and so runs line 682, which rewrites mod.fileName).
RECURSIVE ReachesWrapper(_, _)
ReachesWrapper(obj, mod) ==
    IF ~IsObjectLike(obj) THEN FALSE
    ELSE IF obj.t = "arr"
    THEN \E i \in 1..Len(obj.a) : ReachesWrapper(obj.a[i], mod)
    ELSE \E i \in 1..Len(obj.o) :
             IF IsWrapperArray(obj.o[i][2])
             THEN \E k \in 1..Len(obj.o[i][2].a) : UidMatches(obj.o[i][2].a[k], mod)
             ELSE ReachesWrapper(obj.o[i][2], mod)

\* ------------------------------------------------------------ the state

VARIABLES
    prog,           \* which script runs: "script" (script.js) or "part000"
    server,         \* the CMS: story id -> story document
    isEditMode,
    sendButton,     \* the send button can be clicked (shown / not disabled)
    rows,           \* the image rows of the table, with their input values
    detailRows,     \* script.js: the stories that have a detail row
    imageModifications,         \* script.js: Map<storyId, Map<imageBynderId, mod>>
    changedStories,             \* script.js: Set<storyId>
    allLoadedStoriesContent,    \* script.js: Map<storyId, story.content>
    currentStoryData,           \* part_000: the main story as loaded
    currentStoryImages,         \* part_000: the extracted images
    modifiedImages,             \* part_000: Map<"storyId-uid", modification>
    pc,             \* where the write-back handler is suspended
    storiesToProcess,           \* script.js: Array.from(changedStories)
    storiesToUpdate,            \* part_000: Map<storyId, fetched story>
    cursor,         \* the position of the handler's loop
    storyToUpdate,  \* script.js: the patched story awaiting its PUT
    successCount,
    failCount,
    hasErrors,      \* part_000
    log,            \* history: the requests and patches of the current write-back
    startMods,      \* history: the tracker when the current write-back started
    sends,          \* history: the write-backs started
    externalEdits,  \* history: the edits made to the CMS by others
    tree,           \* a content tree handed to the image locator
    located,        \* what the locator returned for it, as paths
    thrown,         \* the locator raised a TypeError instead of returning
    second,         \* the outcome of a second run of the locator on the tree
    storage,        \* localStorage: the item under the token key, null for none
    storyblokMapiToken,         \* the token in memory
    tokens,         \* history: the tokens in memory so far, the current one last
    calls,          \* history: the API calls made, with the state of each
    handlers,       \* the async handlers suspended at an API call
    shown,          \* history: the alerts, modals and renderings, in order
    ui,             \* the buttons, lists and tables the handlers act on
    started,        \* history: the operations started
    late,           \* history: the edits made while a write-back was suspended
    overlap         \* history: the write-backs started while another one ran

vars == <<prog, server, isEditMode, sendButton, rows, detailRows,
          imageModifications, changedStories, allLoadedStoriesContent,
          currentStoryData, currentStoryImages, modifiedImages, pc,
          storiesToProcess, storiesToUpdate, cursor, storyToUpdate,
          successCount, failCount, hasErrors, log, startMods, sends,
          externalEdits, tree, located, thrown, second, storage,
          storyblokMapiToken, tokens, calls, handlers, shown, ui, started,
          late, overlap>>

scriptVars == <<detailRows, imageModifications, changedStories,
                allLoadedStoriesContent, storiesToProcess, storyToUpdate,
                successCount, failCount>>
partVars == <<currentStoryData, currentStoryImages, modifiedImages,
              storiesToUpdate, hasErrors>>
locatorVars == <<tree, located, thrown, second>>
netVars == <<storage, storyblokMapiToken, tokens, calls, handlers, shown, ui,
             started>>
busyVars == <<late, overlap>>

\* ------------------------------------------------------------- the CMS

\* The write-backs followed, the requests of a write-back that fail, and the
\* edits others make to the CMS.
MaxSends == 1
MaxFailures == 1
MaxExternalEdits == 1

Stories == {1, 2}

\* A 'bynder_image' block as the CMS stores it.
ImageWrapper(uid, id, name, url, alt) ==
    JObj(<< <<"component", BynderImage>>,
            <<"_uid", Word(uid)>>,
            <<"image", JArr(<< JObj(<<
                <<"databaseId", id>>,
                <<"name", JStr(name)>>,
                <<"files", JObj(<<
                    <<"thumbnail", JObj(<< <<"url", Word("thumb")>> >>)>>,
                    <<"transformBaseUrl", JObj(<< <<"url", JStr(url)>> >>)>> >>)>>
              >>) >>)>>,
            <<"alt", JStr(alt)>> >>)

StoryDoc(id, uuid, content) ==
    JObj(<< <<"id", JNum(id)>>, <<"uuid", Word(uuid)>>, <<"content", content>> >>)

\* Story 1 is a product detail page that links story 2 (its product).  The
\* first image of story 1 has a transform URL without a '/', the second one a
\* numeric databaseId.
InitialServer ==
    [s \in Stories |->
        IF s = 1
        THEN StoryDoc(1, "uuid-1", JObj(<<
                 <<"component", Word("product_detail_page")>>,
                 <<"product", Word("uuid-2")>>,
                 <<"body", JArr(<<
                     ImageWrapper("u1", Word("a"), <<"O">>, <<"O">>, <<"x">>),
                     ImageWrapper("u2", JNum(7), <<"p">>, <<"h", "/", "p">>, <<"x">>)
                   >>)>> >>))
        ELSE StoryDoc(2, "uuid-2", JObj(<<
                 <<"component", Word("product")>>,
                 <<"body", JArr(<<
                     ImageWrapper("u3", Word("c"), <<"q">>, <<"h", "/", "q">>, <<"x">>)
                   >>)>> >>))]

\* What the user types into a file name or alt text input, besides the
\* original value of the row (which takes an edit back).
TypedFileName == <<"N", " ", "w">>
TypedAlt == <<"t">>
\* What another editor sets.
ExternalFileName == <<"e">>
ExternalAlt == <<"f">>

ContentOf(doc) == Get(doc, "content")

\* The nodes a sequence of paths leads to.
NodesAt(content, paths) == [k \in 1..Len(paths) |-> NodeAt(content, paths[k])]

\* The array at path with its element k removed.
WithoutElement(content, path, k) ==
    LET arr == NodeAt(content, path)
    IN ReplaceAt(content, path,
                 JArr([i \in 1..(Len(arr.a) - 1) |->
                          IF i < k THEN arr.a[i] ELSE arr.a[i + 1]]))

\* script.js line 27, part_000 lines 33 and 363:
\* localStorage.getItem(KEY) || ''
StoredToken(item) == IF Truthy(item) THEN item.s ELSE <<>>

\* A token saved in an earlier session.
SavedToken == <<"k">>

\* The buttons, lists and tables of each page before any handler has run.
\* script.js: the connect button, the story tree and its slugs, the rows of
\* the main table, its placeholder text, the Get Images buttons that are
\* disabled, the detail row of each story, the buttons above the table.
\* Whether the table shows a row made by a handler that was started for an
\* earlier table (stale), and the two loading indicators.
\* part_000: the story list and the stories it shows, allStories, the image
\* table and its story, the story clicked last, the sidebar's indicator.
InitialUi ==
    IF prog = "script"
    THEN [connectDisabled |-> FALSE, connectHidden |-> FALSE,
          storyTree |-> "empty", slugs |-> <<>>,
          table |-> <<>>, note |-> "", gen |-> 0, disabled |-> {},
          detail |-> [s \in Stories |-> "none"], controls |-> FALSE,
          stale |-> FALSE, loading |-> FALSE, tableLoading |-> FALSE]
    ELSE [storyList |-> "empty", allStories |-> <<>>, listed |-> <<>>,
          imageTable |-> "empty", current |-> 0, selected |-> 0,
          sidebarLoading |-> FALSE]

\* The token is read from storage, and no API call has been made.
NetLoaded ==
    /\ storyblokMapiToken = StoredToken(storage)
    /\ tokens = <<StoredToken(storage)>>
    /\ calls = <<>>
    /\ handlers = <<>>
    /\ shown = <<>>
    /\ ui = InitialUi
    /\ started = 0

\* The page as it is once the script has run, before any story is loaded.
Loaded ==
    /\ isEditMode = FALSE
    /\ sendButton = FALSE
    /\ rows = <<>>
    /\ detailRows = {}
    /\ imageModifications = <<>>
    /\ changedStories = <<>>
    /\ allLoadedStoriesContent = <<>>
    /\ currentStoryData = JNull
    /\ currentStoryImages = <<>>
    /\ modifiedImages = <<>>
    /\ pc = "idle"
    /\ storiesToProcess = <<>>
    /\ storiesToUpdate = <<>>
    /\ cursor = 0
    /\ storyToUpdate = JNull
    /\ successCount = 0
    /\ failCount = 0
    /\ hasErrors = FALSE
    /\ log = <<>>
    /\ startMods = <<>>
    /\ sends = 0
    /\ externalEdits = 0
    /\ late = <<>>
    /\ overlap = <<>>

Init ==
    /\ prog \in {"script", "part000"}
    /\ server = InitialServer
    /\ storage = JStr(SavedToken)
    /\ NetLoaded
    /\ tree = JNull
    /\ located = <<>>
    /\ thrown = FALSE
    /\ second = [located |-> <<>>, thrown |-> FALSE]
    /\ Loaded

\* No write-back is running, and the session goes on: the user acts only
\* between write-backs, and MaxSends of them are followed.
Idle == pc = "idle" /\ sends < MaxSends

\* The requests of the current write-back that failed.
Failures == Cardinality({i \in 1..Len(log) : log[i].m # "PATCH" /\ ~log[i].ok})

\* A request is answered, or fails while failures remain to be followed.
Answer(ok) == ok \/ Failures < MaxFailures

\* ------------------------------------------------------ other editors

\* Another editor renames the first image of a story (name and transform URL
\* together, as this tool does), changes its alt text, or removes the block,
\* while the tool shows images and no write-back is running.
ExternalEdit(s, kind) ==
    /\ pc = "idle"
    /\ rows # <<>>
    /\ externalEdits < MaxExternalEdits
    /\ externalEdits' = externalEdits + 1
    /\ LET content == ContentOf(server[s])
           paths == extractImages(content)
           node == NodeAt(content, paths[1])
           parent == SubSeq(paths[1], 1, Len(paths[1]) - 1)
           last == paths[1][Len(paths[1])]
           new == CASE kind = "rename" ->
                           ReplaceAt(content, paths[1],
                               WithUrl(WithName(node, ExternalFileName),
                                       DerivedUrl(UrlOf(node).s, ExternalFileName)))
                     [] kind = "alt" ->
                           ReplaceAt(content, paths[1], WithAlt(node, ExternalAlt))
                     [] OTHER -> WithoutElement(content, parent, last)
       IN /\ paths # <<>>
          /\ server' = [server EXCEPT ![s] = Put(@, "content", new)]
    /\ UNCHANGED <<netVars, locatorVars, busyVars, prog, isEditMode, sendButton, rows, pc, cursor, log, startMods,
                   sends, scriptVars, partVars>>

\* The stories other editors touch.
ExternallyEdited == {1}

Environment ==
    \E s \in ExternallyEdited, kind \in {"rename", "alt", "delete"} :
        ExternalEdit(s, kind)

\* ------------------------------------------------- script.js: the table

\* script.js lines 504-513: the uuids of the stories related to a main story.
RelatedStoryUuids(content) ==
    LET component == Get(content, "component")
    IN IF /\ \/ component = Word("product_detail_page")
             \/ component = Word("used_product_detail_page")
             \/ component = Word("charter_product_detail_page")
          /\ Truthy(Get(content, "product"))
       THEN <<Get(content, "product")>>
       ELSE IF component = Word("event_detail_page") /\ Truthy(Get(content, "event"))
       THEN <<Get(content, "event")>>
       ELSE IF component = Word("project_detail_page") /\ Truthy(Get(content, "project"))
       THEN <<Get(content, "project")>>
       ELSE <<>>

\* The CMS's answer to stories/?by_uuids=...: the ids of the stories with one
\* of the uuids, in id order.
RECURSIVE StoriesByUuids(_, _)
StoriesByUuids(uuids, s) ==
    IF s \notin Stories THEN <<>>
    ELSE (IF \E i \in 1..Len(uuids) : Get(server[s], "uuid") = uuids[i]
          THEN <<s>> ELSE <<>>) \o StoriesByUuids(uuids, s + 1)

\* script.js lines 523-530: the related stories fetched one by one, each
\* cached and its images added.  acc is [loaded, images].
RECURSIVE LoadRelated(_, _, _)
LoadRelated(related, i, acc) ==
    IF i > Len(related) THEN acc
    ELSE LET content == ContentOf(server[related[i]])
         IN LoadRelated(related, i + 1,
                [loaded |-> MapSet(acc.loaded, related[i], content),
                 images |-> acc.images \o NodesAt(content, extractImages(content))])

\* script.js lines 576-582: the story an image row is recorded for, the first
\* cached story in which the lookup finds the image's id.
ActualStoryIdForImage(loaded, mainStoryId, imgObj) ==
    IF \E i \in 1..Len(loaded) :
           findImageInStoryContentById(loaded[i][2], IdOf(imgObj)) # <<>>
    THEN loaded[CHOOSE i \in 1..Len(loaded) :
                  /\ findImageInStoryContentById(loaded[i][2], IdOf(imgObj)) # <<>>
                  /\ \A j \in 1..(i - 1) :
                        findImageInStoryContentById(loaded[j][2], IdOf(imgObj)) = <<>>][1]
    ELSE mainStoryId

\* script.js lines 584-607: the row of one image; the dataset keeps strings.
ImageRow(loaded, mainStoryId, imgObj) ==
    [parentStoryId |-> mainStoryId,
     actualStoryId |-> ActualStoryIdForImage(loaded, mainStoryId, imgObj),
     imageBynderId |-> DatasetString(IdOf(imgObj)),
     originalFileName |-> DatasetString(NameOf(imgObj)).s,
     originalAlt |-> DatasetString(AltOf(imgObj)).s,
     originalTransformUrl |-> DatasetString(UrlOf(imgObj)).s,
     fileName |-> DatasetString(NameOf(imgObj)).s,
     alt |-> DatasetString(AltOf(imgObj)).s,
     modified |-> FALSE]

\* script.js setEditMode, the part that shows or hides the send button.
setEditMode(enable, changed) == changed # <<>> /\ enable

\* script.js loadImagesForStory, for a story without a detail row.  The GETs
\* are answered by the CMS as it is; net says which of them fail.  The detail
\* row is inserted below the row of its story, and the main table lists the
\* stories in a fixed order (here: by id).
loadImagesForStory(mainStoryId, net) ==
    /\ prog = "script"
    /\ Idle
    /\ mainStoryId \notin detailRows
    /\ IF net = "mainFails"
       THEN UNCHANGED <<rows, detailRows, allLoadedStoriesContent, sendButton>>
       ELSE LET content == ContentOf(server[mainStoryId])
                main == [loaded |-> MapSet(allLoadedStoriesContent, mainStoryId, content),
                         images |-> NodesAt(content, extractImages(content))]
                uuids == RelatedStoryUuids(content)
                all == IF uuids # <<>> /\ net = "ok"
                       THEN LoadRelated(StoriesByUuids(uuids, 1), 1, main)
                       ELSE main
            IN /\ allLoadedStoriesContent' = all.loaded
               /\ detailRows' = detailRows \cup {mainStoryId}
               /\ rows' = SelectSeq(rows, LAMBDA r : r.parentStoryId < mainStoryId)
                           \o [k \in 1..Len(all.images) |->
                                 ImageRow(all.loaded, mainStoryId, all.images[k])]
                           \o SelectSeq(rows, LAMBDA r : r.parentStoryId > mainStoryId)
               /\ sendButton' = IF all.images = <<>> THEN sendButton
                                ELSE setEditMode(isEditMode, changedStories)
    /\ UNCHANGED <<netVars, locatorVars, busyVars, prog, server, isEditMode, imageModifications, changedStories,
                   storiesToProcess, storyToUpdate, successCount, failCount, pc,
                   cursor, log, startMods, sends, externalEdits, partVars>>

\* script.js loadMainTable: another path is selected; the table and every
\* tracking structure are emptied (the list of stories is fetched again).
loadMainTable ==
    /\ prog = "script"
    /\ Idle
    /\ rows' = <<>>
    /\ detailRows' = {}
    /\ changedStories' = <<>>
    /\ imageModifications' = <<>>
    /\ allLoadedStoriesContent' = <<>>
    /\ sendButton' = FALSE
    /\ isEditMode' = FALSE
    /\ UNCHANGED <<netVars, locatorVars, busyVars, prog, server, storiesToProcess, storyToUpdate, successCount,
                   failCount, pc, cursor, log, startMods, sends, externalEdits,
                   partVars>>

\* script.js toggleEditModeButton click
toggleEditModeButton ==
    /\ prog = "script"
    /\ Idle
    /\ isEditMode' = ~isEditMode
    /\ sendButton' = setEditMode(~isEditMode, changedStories)
    /\ UNCHANGED <<netVars, locatorVars, busyVars, prog, server, rows, pc, cursor, log, startMods, sends,
                   externalEdits, scriptVars, partVars>>

\* script.js handleInputChange: the change event of one input of row r, after
\* the user set it to value.
InputChanged(r, field, value) ==
    /\ prog = "script"
    /\ isEditMode
    /\ value # rows[r][field]
    /\ LET row == [rows[r] EXCEPT ![field] = value]
           actualStoryId == row.actualStoryId
           imageBynderId == row.imageBynderId
           storyMods == IF MapHas(imageModifications, actualStoryId)
                        THEN MapGet(imageModifications, actualStoryId) ELSE <<>>
           isFileNameChanged == row.fileName # row.originalFileName
           isAltTextChanged == row.alt # row.originalAlt
       IN IF isFileNameChanged \/ isAltTextChanged
          THEN /\ imageModifications' =
                      MapSet(imageModifications, actualStoryId,
                             MapSet(storyMods, imageBynderId,
                                    [originalFileName |-> row.originalFileName,
                                     originalAlt |-> row.originalAlt,
                                     originalTransformUrl |-> row.originalTransformUrl,
                                     newFileName |-> row.fileName,
                                     newAlt |-> row.alt]))
               /\ rows' = [rows EXCEPT ![r] = [row EXCEPT !.modified = TRUE]]
               /\ changedStories' = SetAdd(changedStories, actualStoryId)
               /\ sendButton' = TRUE
          ELSE LET left == MapDelete(storyMods, imageBynderId)
                   changed == IF left = <<>> THEN SetDelete(changedStories, actualStoryId)
                              ELSE changedStories
               IN /\ imageModifications' =
                         IF left = <<>> THEN MapDelete(imageModifications, actualStoryId)
                         ELSE MapSet(imageModifications, actualStoryId, left)
                  /\ rows' = [rows EXCEPT ![r] = [row EXCEPT !.modified = FALSE]]
                  /\ changedStories' = changed
                  /\ sendButton' = IF changed = <<>> THEN FALSE ELSE sendButton
    /\ UNCHANGED <<netVars, locatorVars, prog, server, isEditMode, detailRows, allLoadedStoriesContent,
                   storiesToProcess, storyToUpdate, successCount, failCount, pc,
                   cursor, log, startMods, sends, externalEdits, partVars>>

\* The change event between write-backs.
handleInputChange(r, field, value) ==
    /\ Idle
    /\ InputChanged(r, field, value)
    /\ UNCHANGED busyVars

\* --------------------------------------------- script.js: the write-back

\* script.js lines 740-747: the next story of storiesToProcess, from position
\* i on, that still has modifications; a story without any is dropped from
\* changedStories and passed over.  cursor 0: the loop has ended.
RECURSIVE NextToProcess(_, _, _, _)
NextToProcess(toProcess, i, changed, mods) ==
    IF i > Len(toProcess) THEN [cursor |-> 0, changed |-> changed]
    ELSE IF MapHas(mods, toProcess[i]) /\ MapGet(mods, toProcess[i]) # <<>>
    THEN [cursor |-> i, changed |-> changed]
    ELSE NextToProcess(toProcess, i + 1, SetDelete(changed, toProcess[i]), mods)

\* The handler runs on from position i of its loop to its next request (the GET
\* of line 750) or to the alert that ends it (line 846), which blocks.
ProcessFrom(toProcess, i, changed, mods) ==
    LET next == NextToProcess(toProcess, i, changed, mods)
    IN /\ changedStories' = next.changed
       /\ cursor' = next.cursor
       /\ pc' = IF next.cursor = 0 THEN "alert" ELSE "awaitGet"

\* script.js line 738
StoriesToProcess(changed) == changed

\* script.js lines 725-750: the click on the send button, up to the first GET.
sendToServerButton ==
    /\ prog = "script"
    /\ Idle
    /\ sendButton
    /\ IF changedStories = <<>>
       THEN UNCHANGED <<storiesToProcess, successCount, failCount, log, startMods,
                        sends, changedStories, cursor, pc>>
       ELSE /\ storiesToProcess' = StoriesToProcess(changedStories)
            /\ successCount' = 0
            /\ failCount' = 0
            /\ log' = <<>>
            /\ startMods' = imageModifications
            /\ sends' = sends + 1
            /\ ProcessFrom(StoriesToProcess(changedStories), 1, changedStories,
                           imageModifications)
    /\ UNCHANGED <<netVars, locatorVars, busyVars, prog, server, isEditMode, sendButton, rows, detailRows,
                   imageModifications, allLoadedStoriesContent, storyToUpdate,
                   externalEdits, partVars>>

\* The story of the answer with the content cached when its images were loaded.
CachedStory(latestStoryResponse) ==
    Put(latestStoryResponse, "content",
        MapGet(allLoadedStoriesContent, Get(latestStoryResponse, "id").n))

\* script.js line 757: the story the write-back patches and sends, taken from
\* the answer to the GET of line 750.
LatestStory(latestStoryResponse) == latestStoryResponse

\* script.js lines 750-803: the answer to the GET of the story at the cursor.
\* A failed GET counts the story as failed; otherwise the modifications are
\* applied to the fetched story, which is then sent (or passed over when no
\* image was found).
fetchLatestStory(ok) ==
    /\ prog = "script"
    /\ pc = "awaitGet"
    /\ Answer(ok)
    /\ LET storyId == storiesToProcess[cursor]
           modsForThisStory == MapGet(imageModifications, storyId)
           latestStoryResponse == server[storyId]
           latest == LatestStory(latestStoryResponse)
           patched == ApplyModifications(ContentOf(latest), modsForThisStory, 1, FALSE)
       IN IF ~ok
          THEN /\ log' = Append(log, [m |-> "GET", story |-> storyId, ok |-> FALSE,
                                      doc |-> JNull, mods |-> <<>>])
               /\ failCount' = failCount + 1
               /\ ProcessFrom(storiesToProcess, cursor + 1,
                              SetDelete(changedStories, storyId), imageModifications)
               /\ UNCHANGED <<imageModifications, storyToUpdate>>
          ELSE /\ log' = log \o
                    << [m |-> "GET", story |-> storyId, ok |-> TRUE,
                        doc |-> latestStoryResponse, mods |-> <<>>],
                       [m |-> "PATCH", story |-> storyId, ok |-> patched.applied,
                        doc |-> Put(latest, "content", patched.content),
                        mods |-> modsForThisStory] >>
               /\ UNCHANGED failCount
               /\ IF patched.applied
                  THEN /\ storyToUpdate' = Put(latest, "content", patched.content)
                       /\ pc' = "awaitPut"
                       /\ UNCHANGED <<imageModifications, changedStories, cursor>>
                  ELSE /\ imageModifications' = MapDelete(imageModifications, storyId)
                       /\ ProcessFrom(storiesToProcess, cursor + 1,
                                      SetDelete(changedStories, storyId),
                                      MapDelete(imageModifications, storyId))
                       /\ UNCHANGED storyToUpdate
    /\ UNCHANGED <<netVars, locatorVars, busyVars, prog, server, isEditMode, sendButton, rows, detailRows,
                   allLoadedStoriesContent, storiesToProcess, successCount,
                   startMods, sends, externalEdits, partVars>>

\* script.js lines 809-834: after a successful PUT the values shown in a row
\* of the story become its originals.
SavedRow(row, storyId, modsForThisStory) ==
    IF row.actualStoryId = storyId /\ MapHas(modsForThisStory, row.imageBynderId)
    THEN [row EXCEPT !.originalAlt = row.alt,
                     !.originalFileName = row.fileName,
                     !.originalTransformUrl =
                         DerivedUrl(row.originalTransformUrl, row.fileName),
                     !.modified = FALSE]
    ELSE row

\* script.js lines 803-843: the answer to the PUT of the story at the cursor.
putStory(ok) ==
    /\ prog = "script"
    /\ pc = "awaitPut"
    /\ Answer(ok)
    /\ LET storyId == storiesToProcess[cursor]
           modsForThisStory == MapGet(imageModifications, storyId)
       IN /\ log' = Append(log, [m |-> "PUT", story |-> storyId, ok |-> ok,
                                 doc |-> storyToUpdate, mods |-> modsForThisStory])
          /\ IF ok
             THEN /\ server' = [server EXCEPT ![storyId] = storyToUpdate]
                  /\ successCount' = successCount + 1
                  /\ rows' = [r \in 1..Len(rows) |->
                                SavedRow(rows[r], storyId, modsForThisStory)]
                  /\ imageModifications' = MapDelete(imageModifications, storyId)
                  /\ ProcessFrom(storiesToProcess, cursor + 1,
                                 SetDelete(changedStories, storyId),
                                 MapDelete(imageModifications, storyId))
                  /\ UNCHANGED failCount
             ELSE /\ failCount' = failCount + 1
                  /\ ProcessFrom(storiesToProcess, cursor + 1, changedStories,
                                 imageModifications)
                  /\ UNCHANGED <<server, successCount, rows, imageModifications>>
    /\ UNCHANGED <<netVars, locatorVars, busyVars, prog, isEditMode, sendButton, detailRows,
                   allLoadedStoriesContent, storiesToProcess, storyToUpdate,
                   startMods, sends, externalEdits, partVars>>

\* script.js lines 846-850: the alert with the counts is closed and the handler
\* ends; its locals are gone, and with them the history of this write-back.
closeAlert ==
    /\ prog = "script"
    /\ pc = "alert"
    /\ pc' = "idle"
    /\ sendButton' = IF changedStories = <<>> THEN FALSE ELSE sendButton
    /\ storiesToProcess' = <<>>
    /\ storyToUpdate' = JNull
    /\ successCount' = 0
    /\ failCount' = 0
    /\ log' = <<>>
    /\ startMods' = <<>>
    /\ UNCHANGED <<netVars, locatorVars, busyVars, prog, server, isEditMode, rows, detailRows, imageModifications,
                   changedStories, allLoadedStoriesContent, cursor, sends,
                   externalEdits, partVars>>

ScriptNext ==
    \/ \E s \in Stories, net \in {"ok", "mainFails", "relatedFails"} :
           loadImagesForStory(s, net)
    \/ loadMainTable
    \/ toggleEditModeButton
    \/ /\ prog = "script"
       /\ \E r \in 1..Len(rows) :
              \/ \E value \in {TypedFileName, rows[r].originalFileName} :
                     handleInputChange(r, "fileName", value)
              \/ \E value \in {TypedAlt, rows[r].originalAlt} :
                     handleInputChange(r, "alt", value)
    \/ sendToServerButton
    \/ \E ok \in BOOLEAN : fetchLatestStory(ok)
    \/ \E ok \in BOOLEAN : putStory(ok)
    \/ closeAlert

\* ------------------------------------------------ part_000: the table

\* part_000 lines 194-195: v || ''
OrEmpty(v) == IF Truthy(v) THEN v ELSE JStr(<<>>)

\* part_000 lines 193-204: the record pushed for a collected wrapper.
ExtractedImage(imageWrapper, storyId) ==
    [storyId |-> storyId,
     alt |-> OrEmpty(AltOf(imageWrapper)),
     fileName |-> OrEmpty(NameOf(imageWrapper)),
     bynderId |-> IdOf(imageWrapper),
     uid |-> UidOf(imageWrapper)]

\* part_000 extractImagesFromStoryJson
extractImagesFromStoryJson(storyJson, storyId) ==
    LET content == ContentOf(storyJson)
        paths == collectImagesRecursive(content)
    IN [k \in 1..Len(paths) |-> ExtractedImage(NodeAt(content, paths[k]), storyId)]

\* part_000 lines 576-586: the uuid of the linked story, undefined for none.
LinkedStoryUuid(content) ==
    LET component == Get(content, "component")
        field == CASE component \in {Word("product_detail_page"),
                                     Word("used_product_detail_page"),
                                     Word("charter_product_detail_page")} -> "product"
                   [] component = Word("event_detail_page") -> "event"
                   [] component = Word("project_detail_page") -> "project"
                   [] OTHER -> ""
    IN IF field # "" /\ Truthy(Get(content, field)) THEN Get(content, field)
       ELSE JUndef

\* part_000 renderImageTable, lines 261-281: the two textareas of an image.
TableRow(image) ==
    [storyId |-> image.storyId,
     uid |-> DatasetString(image.uid),
     fileName |-> DatasetString(image.fileName).s,
     altText |-> DatasetString(image.alt).s]

\* part_000 loadStoryDetails from its first request on: what it leaves in
\* currentStoryData, currentStoryImages and the table.  A failed request
\* throws; the table is rendered only when none failed.
StoryDetails(storyId, net) ==
    IF net = "mainFails"
    THEN [data |-> JNull, images |-> <<>>, rows |-> <<>>]
    ELSE LET mainStoryJson == server[storyId]
             mainImages == extractImagesFromStoryJson(mainStoryJson, storyId)
             linkedStoryUuid == LinkedStoryUuid(ContentOf(mainStoryJson))
             linked == IF Truthy(linkedStoryUuid)
                       THEN StoriesByUuids(<<linkedStoryUuid>>, 1) ELSE <<>>
         IN IF Truthy(linkedStoryUuid) /\ net = "relatedFails"
            THEN [data |-> mainStoryJson, images |-> mainImages, rows |-> <<>>]
            ELSE LET images == IF linked # <<>>
                               THEN mainImages \o
                                    extractImagesFromStoryJson(server[linked[1]],
                                                               linked[1])
                               ELSE mainImages
                 IN [data |-> mainStoryJson, images |-> images,
                     rows |-> [k \in 1..Len(images) |-> TableRow(images[k])]]

\* part_000 loadStoryDetails, started by a click on a story of the list.
loadStoryDetails(storyId, net) ==
    /\ prog = "part000"
    /\ Idle
    /\ LET details == StoryDetails(storyId, net)
       IN /\ currentStoryData' = details.data
          /\ currentStoryImages' = details.images
          /\ rows' = details.rows
    /\ modifiedImages' = <<>>
    /\ sendButton' = FALSE
    /\ UNCHANGED <<netVars, locatorVars, busyVars, prog, server, isEditMode, storiesToUpdate, hasErrors, pc, cursor,
                   log, startMods, sends, externalEdits, scriptVars>>

\* part_000 toggleEditMode
toggleEditMode ==
    /\ prog = "part000"
    /\ Idle
    /\ isEditMode' = ~isEditMode
    /\ UNCHANGED <<netVars, locatorVars, busyVars, prog, server, sendButton, rows, pc, cursor, log, startMods,
                   sends, externalEdits, scriptVars, partVars>>

\* part_000 line 320: `${storyId}-${uid}`
UniqueKey(storyId, uid) == NumChars(storyId) \o <<"-">> \o uid.s

\* part_000 handleCellChange: the change event of one textarea of row r, after
\* the user set it to value.  The listener is attached while edit mode is on.
CellChanged(r, field, value) ==
    /\ prog = "part000"
    /\ isEditMode
    /\ value # rows[r][field]
    /\ rows' = [rows EXCEPT ![r][field] = value]
    /\ LET storyId == rows[r].storyId
           uid == rows[r].uid
           found == SelectSeq(currentStoryImages,
                              LAMBDA img : img.storyId = storyId /\ img.uid = uid)
           uniqueKey == UniqueKey(storyId, uid)
       IN IF found = <<>>
          THEN UNCHANGED <<modifiedImages, sendButton>>
          ELSE LET originalImage == found[1]
                   tracked == IF MapHas(modifiedImages, uniqueKey)
                              THEN modifiedImages
                              ELSE MapSet(modifiedImages, uniqueKey,
                                       [storyId |-> storyId,
                                        uid |-> uid,
                                        altText |-> originalImage.alt.s,
                                        fileName |-> originalImage.fileName.s,
                                        originalAlt |-> originalImage.alt.s,
                                        originalFileName |-> originalImage.fileName.s])
                   modificationEntry ==
                       [MapGet(tracked, uniqueKey) EXCEPT ![field] = value]
                   isAltChanged ==
                       modificationEntry.altText # modificationEntry.originalAlt
                   isFileNameChanged ==
                       modificationEntry.fileName # modificationEntry.originalFileName
                   after == IF ~isAltChanged /\ ~isFileNameChanged
                            THEN MapDelete(tracked, uniqueKey)
                            ELSE MapSet(tracked, uniqueKey, modificationEntry)
               IN /\ modifiedImages' = after
                  /\ sendButton' = (after # <<>>)
    /\ UNCHANGED <<netVars, locatorVars, prog, server, isEditMode, currentStoryData, currentStoryImages,
                   storiesToUpdate, hasErrors, pc, cursor, log, startMods, sends,
                   externalEdits, scriptVars>>

\* The change event between write-backs.
handleCellChange(r, field, value) ==
    /\ Idle
    /\ CellChanged(r, field, value)
    /\ UNCHANGED busyVars

\* ---------------------------------------------- part_000: the write-back

\* part_000 lines 652-659: the first modification, from position i on, whose
\* story has not been fetched yet; 0 when every story has been.
RECURSIVE NextToFetch(_, _, _)
NextToFetch(mods, i, fetched) ==
    IF i > Len(mods) THEN 0
    ELSE IF ~MapHas(fetched, mods[i][2].storyId) THEN i
    ELSE NextToFetch(mods, i + 1, fetched)

\* part_000 lines 661-709: every modification applied, in the Map's order, to
\* the fetched story it belongs to.  A modification whose wrapper is reached
\* has its file name rewritten (line 682).  The result is the tracker and the
\* fetched stories after the loop.
RECURSIVE UpdateStories(_, _, _)
UpdateStories(mods, i, stories) ==
    IF i > Len(mods) THEN [mods |-> mods, stories |-> stories]
    ELSE LET mod == mods[i][2]
             storyToUpdate_ == MapGet(stories, mod.storyId)
             content == ContentOf(storyToUpdate_)
             rewritten == IF ReachesWrapper(content, mod)
                          THEN [mod EXCEPT !.fileName = NormalizeFileName(mod.fileName)]
                          ELSE mod
         IN UpdateStories(
                [mods EXCEPT ![i] = <<mods[i][1], rewritten>>], i + 1,
                MapSet(stories, mod.storyId,
                       Put(storyToUpdate_, "content", updateImageRecursive(content, mod))))

\* The modifications of one story.
ModsOfStory(mods, storyId) == SelectSeq(mods, LAMBDA e : e[2].storyId = storyId)

\* The handler's catch and finally blocks: the error modal is shown and the
\* button is enabled again when modifications remain.
Failed(mods) ==
    /\ hasErrors' = TRUE
    /\ sendButton' = (mods # <<>>)
    /\ pc' = "modal"

\* part_000 sendModificationsToServer lines 639-656: the click on the send
\* button, up to the first GET.
sendModificationsToServer ==
    /\ prog = "part000"
    /\ Idle
    /\ sendButton
    /\ IF modifiedImages = <<>>
       THEN UNCHANGED <<sendButton, hasErrors, storiesToUpdate, cursor, pc, log,
                        startMods, sends>>
       ELSE /\ sendButton' = FALSE
            /\ hasErrors' = FALSE
            /\ storiesToUpdate' = <<>>
            /\ cursor' = 1
            /\ pc' = "awaitStory"
            /\ log' = <<>>
            /\ startMods' = modifiedImages
            /\ sends' = sends + 1
    /\ UNCHANGED <<netVars, locatorVars, busyVars, prog, server, isEditMode, rows, currentStoryData,
                   currentStoryImages, modifiedImages, externalEdits, scriptVars>>

\* part_000 lines 656-711: the answer to the GET of the story of the
\* modification at the cursor.  After the last GET the modifications are
\* applied to the fetched stories and the first PUT is sent.
storyResponse(ok) ==
    /\ prog = "part000"
    /\ pc = "awaitStory"
    /\ Answer(ok)
    /\ LET storyId == modifiedImages[cursor][2].storyId
           fetched == MapSet(storiesToUpdate, storyId, server[storyId])
           next == NextToFetch(modifiedImages, cursor + 1, fetched)
           updated == UpdateStories(modifiedImages, 1, fetched)
       IN IF ~ok
          THEN /\ log' = Append(log, [m |-> "GET", story |-> storyId, ok |-> FALSE,
                                      doc |-> JNull, mods |-> <<>>])
               /\ Failed(modifiedImages)
               /\ UNCHANGED <<storiesToUpdate, cursor, modifiedImages>>
          ELSE IF next # 0
          THEN /\ log' = Append(log, [m |-> "GET", story |-> storyId, ok |-> TRUE,
                                      doc |-> server[storyId], mods |-> <<>>])
               /\ storiesToUpdate' = fetched
               /\ cursor' = next
               /\ UNCHANGED <<modifiedImages, hasErrors, sendButton, pc>>
          ELSE /\ log' = Append(log, [m |-> "GET", story |-> storyId, ok |-> TRUE,
                                      doc |-> server[storyId], mods |-> <<>>])
                         \o [k \in 1..Len(fetched) |->
                               [m |-> "PATCH", story |-> fetched[k][1], ok |-> TRUE,
                                doc |-> MapGet(updated.stories, fetched[k][1]),
                                mods |-> ModsOfStory(modifiedImages, fetched[k][1])]]
               /\ storiesToUpdate' = updated.stories
               /\ modifiedImages' = updated.mods
               /\ cursor' = 1
               /\ pc' = "awaitPut"
               /\ UNCHANGED <<hasErrors, sendButton>>
    /\ UNCHANGED <<netVars, locatorVars, busyVars, prog, server, isEditMode, rows, currentStoryData,
                   currentStoryImages, startMods, sends, externalEdits, scriptVars>>

\* part_000 lines 712-726: the answer to the PUT of the story at the cursor of
\* storiesToUpdate.  After the last PUT the tracker is cleared and the current
\* story is loaded again.
putResponse(ok) ==
    /\ prog = "part000"
    /\ pc = "awaitPut"
    /\ Answer(ok)
    /\ LET storyId == storiesToUpdate[cursor][1]
           updatedStoryJson == storiesToUpdate[cursor][2]
       IN /\ log' = Append(log, [m |-> "PUT", story |-> storyId, ok |-> ok,
                                 doc |-> updatedStoryJson,
                                 mods |-> ModsOfStory(modifiedImages, storyId)])
          /\ IF ~ok
             THEN /\ Failed(modifiedImages)
                  /\ UNCHANGED <<server, cursor, modifiedImages>>
             ELSE /\ server' = [server EXCEPT ![storyId] = updatedStoryJson]
                  /\ IF cursor < Len(storiesToUpdate)
                     THEN /\ cursor' = cursor + 1
                          /\ UNCHANGED <<modifiedImages, pc>>
                     ELSE /\ modifiedImages' = <<>>
                          /\ pc' = "awaitReload"
                          /\ UNCHANGED cursor
                  /\ UNCHANGED <<hasErrors, sendButton>>
    /\ UNCHANGED <<netVars, locatorVars, busyVars, prog, isEditMode, rows, currentStoryData, currentStoryImages,
                   storiesToUpdate, startMods, sends, externalEdits, scriptVars>>

\* part_000 lines 726-734: loadStoryDetails(currentStoryData.story.id) after
\* the PUTs, and the handler's finally block.  loadStoryDetails catches its
\* own failures.
reloadStoryDetails(net) ==
    /\ prog = "part000"
    /\ pc = "awaitReload"
    /\ LET details == StoryDetails(Get(currentStoryData, "id").n, net)
       IN /\ currentStoryData' = details.data
          /\ currentStoryImages' = details.images
          /\ rows' = details.rows
    /\ modifiedImages' = <<>>
    /\ sendButton' = FALSE
    /\ pc' = "modal"
    /\ UNCHANGED <<netVars, locatorVars, busyVars, prog, server, isEditMode, storiesToUpdate, hasErrors, cursor,
                   log, startMods, sends, externalEdits, scriptVars>>

\* The modal that ends the write-back is closed; the handler's locals are
\* gone, and with them the history of this write-back.
closeModal ==
    /\ prog = "part000"
    /\ pc = "modal"
    /\ pc' = "idle"
    /\ storiesToUpdate' = <<>>
    /\ hasErrors' = FALSE
    /\ cursor' = 0
    /\ log' = <<>>
    /\ startMods' = <<>>
    /\ UNCHANGED <<netVars, locatorVars, busyVars, prog, server, isEditMode, sendButton, rows, currentStoryData,
                   currentStoryImages, modifiedImages, sends, externalEdits,
                   scriptVars>>

PartNext ==
    \/ \E s \in Stories, net \in {"ok", "mainFails", "relatedFails"} :
           loadStoryDetails(s, net)
    \/ toggleEditMode
    \/ /\ prog = "part000"
       /\ \E r \in 1..Len(rows) :
              \/ \E value \in {TypedFileName, currentStoryImages[r].fileName.s} :
                     handleCellChange(r, "fileName", value)
              \/ \E value \in {TypedAlt, currentStoryImages[r].alt.s} :
                     handleCellChange(r, "altText", value)
    \/ sendModificationsToServer
    \/ \E ok \in BOOLEAN : storyResponse(ok)
    \/ \E ok \in BOOLEAN : putResponse(ok)
    \/ \E net \in {"ok", "mainFails", "relatedFails"} : reloadStoryDetails(net)
    \/ closeModal

Next == Environment \/ ScriptNext \/ PartNext

Spec == Init /\ [][Next]_vars

\* ------------------------------------------------ the write-back's history

PatchRecords == {i \in 1..Len(log) : log[i].m = "PATCH"}
PutRecords == {i \in 1..Len(log) : log[i].m = "PUT"}

\* The answered GETs of the story of record i that precede it.
FetchesBefore(i) ==
    {j \in 1..(i - 1) : log[j].m = "GET" /\ log[j].ok /\ log[j].story = log[i].story}

\* The story as the last of them returned it, and its content.
FreshStory(i) ==
    log[CHOOSE j \in FetchesBefore(i) : \A k \in FetchesBefore(i) : k <= j].doc
FreshContent(i) == ContentOf(FreshStory(i))

\* A tracker entry as an edit: the identifier it is recorded for, the proposed
\* values and the originals.
EditOf(entry) ==
    IF prog = "script"
    THEN [id |-> entry[1],
          name |-> entry[2].newFileName, originalName |-> entry[2].originalFileName,
          alt |-> entry[2].newAlt, originalAlt |-> entry[2].originalAlt]
    ELSE [id |-> entry[2].uid,
          name |-> entry[2].fileName, originalName |-> entry[2].originalFileName,
          alt |-> entry[2].altText, originalAlt |-> entry[2].originalAlt]

\* The image node carries the identifier of the edit: the databaseId the row
\* showed (script.js), the _uid (part_000).
Carries(node, edit) ==
    IF prog = "script" THEN DatasetString(IdOf(node)) = edit.id
    ELSE UidOf(node) = edit.id

\* The image nodes of a content tree, and those an edit is recorded for.
ImagePaths(content) ==
    {extractImages(content)[k] : k \in 1..Len(extractImages(content))}
Targets(content, edit) ==
    {p \in ImagePaths(content) : Carries(NodeAt(content, p), edit)}

\* The edits of the patch record i.
EditsOf(i) == {EditOf(log[i].mods[k]) : k \in 1..Len(log[i].mods)}

\* The edit shows in the patched node.
Applied(new, old, edit) ==
    /\ edit.alt # edit.originalAlt => AltOf(new) = JStr(edit.alt)
    /\ edit.name # edit.originalName =>
           NameOf(new) # NameOf(old) \/ NameOf(new) = JStr(edit.name)

\* The stories with a tracker entry when the write-back started.
PendingAtStart ==
    IF prog = "script" THEN MapKeys(startMods)
    ELSE {startMods[k][2].storyId : k \in 1..Len(startMods)}

\* The write-back has run to its end.
Ended == pc \in {"alert", "modal"}

EndsWith(s, t) == Len(s) >= Len(t) /\ SubSeq(s, Len(s) - Len(t) + 1, Len(s)) = t

\* -------------------------------------------------------------- claims

\* C1: while the user only edits, the tracker holds an entry for a (story,
\* image) key exactly when the proposed file name or alt text of a row of that
\* key differs from the row's original, also when several rows share the key.
C1_TrackerInvariant ==
    (pc = "idle" /\ sends = 0) =>
        IF prog = "script"
        THEN \A r \in 1..Len(rows) :
                 (/\ MapHas(imageModifications, rows[r].actualStoryId)
                  /\ MapHas(MapGet(imageModifications, rows[r].actualStoryId),
                            rows[r].imageBynderId))
                 <=> \E q \in 1..Len(rows) :
                         /\ rows[q].actualStoryId = rows[r].actualStoryId
                         /\ rows[q].imageBynderId = rows[r].imageBynderId
                         /\ \/ rows[q].fileName # rows[q].originalFileName
                            \/ rows[q].alt # rows[q].originalAlt
        ELSE \A r \in 1..Len(rows) :
                 MapHas(modifiedImages, UniqueKey(rows[r].storyId, rows[r].uid))
                 <=> \/ rows[r].fileName # currentStoryImages[r].fileName.s
                     \/ rows[r].altText # currentStoryImages[r].alt.s

\* C2: the patcher leaves a field the user did not edit at the value of the
\* freshly fetched story: the name and the transform URL when the proposed
\* name equals the original, the alt text when the proposed alt text does.
C2_UneditedFieldsKept ==
    \A i \in PatchRecords : \A e \in EditsOf(i) :
        \A p \in Targets(FreshContent(i), e) :
            LET old == NodeAt(FreshContent(i), p)
                new == NodeAt(ContentOf(log[i].doc), p)
            IN /\ e.name = e.originalName =>
                      NameOf(new) = NameOf(old) /\ UrlOf(new) = UrlOf(old)
               /\ e.alt = e.originalAlt => AltOf(new) = AltOf(old)

\* The patcher of the running script applied to a content tree.
RECURSIVE UpdateAll(_, _, _)
UpdateAll(content, mods, i) ==
    IF i > Len(mods) THEN content
    ELSE UpdateAll(updateImageRecursive(content, mods[i][2]), mods, i + 1)
PatchedContent(content, mods) ==
    IF prog = "script" THEN ApplyModifications(content, mods, 1, FALSE).content
    ELSE UpdateAll(content, mods, 1)

\* The content the tool cached for a story when its images were loaded.
CachedContent(storyId) ==
    IF prog = "script"
    THEN IF MapHas(allLoadedStoriesContent, storyId)
         THEN MapGet(allLoadedStoriesContent, storyId) ELSE JUndef
    ELSE IF currentStoryData # JNull /\ Get(currentStoryData, "id") = JNum(storyId)
         THEN ContentOf(currentStoryData) ELSE JUndef

\* C3: every PUT of a write-back follows an answered GET of the same story in
\* that write-back, and its body is the document that GET returned with the
\* story's modifications applied, never the cached content.
C3_PutIsPatchedFetch ==
    \A i \in PutRecords :
        /\ FetchesBefore(i) # {}
        /\ log[i].doc = Put(FreshStory(i), "content",
                            PatchedContent(FreshContent(i), log[i].mods))

\* C3 happens: a PUT was sent for a story whose cached content differs from
\* what the GET of the write-back returned.
C3_Witness ==
    \E i \in PutRecords :
        /\ FetchesBefore(i) # {}
        /\ CachedContent(log[i].story) # JUndef
        /\ CachedContent(log[i].story) # FreshContent(i)
        /\ ContentOf(log[i].doc) # FreshContent(i)

\* C4: a write-back in which no request failed has sent exactly one PUT for
\* every story that had a tracker entry when it started, and none for others.
C4_OnePutPerPendingStory ==
    (Ended /\ Failures = 0) =>
        \A s \in Stories :
            Cardinality({i \in PutRecords : log[i].story = s})
                = IF s \in PendingAtStart THEN 1 ELSE 0

\* C5: a write-back that has ended has fetched every story that had a tracker
\* entry when it started, whatever request of another story failed.
C5_EveryPendingStoryProcessed ==
    Ended =>
        \A s \in PendingAtStart :
            \E j \in 1..Len(log) : log[j].m = "GET" /\ log[j].story = s

\* C6: when the fetched story lacks the node of one edit and holds the node of
\* another edit of the same story, that other edit is applied and, no request
\* failing, the story is sent.
C6_OnlyMissingEditSkipped ==
    (Ended /\ Failures = 0) =>
        \A i \in PatchRecords :
            (\E e \in EditsOf(i) : Targets(FreshContent(i), e) = {}) =>
                \A e \in EditsOf(i) : \A p \in Targets(FreshContent(i), e) :
                    /\ Applied(NodeAt(ContentOf(log[i].doc), p),
                               NodeAt(FreshContent(i), p), e)
                    /\ \E j \in PutRecords : j > i /\ log[j].story = log[i].story

\* C7: an edit is applied to the node of the fetched story that carries the
\* identifier of the edit, whenever there is such a node.
C7_EditAppliedByIdentifier ==
    \A i \in PatchRecords : \A e \in EditsOf(i) :
        \A p \in Targets(FreshContent(i), e) :
            Applied(NodeAt(ContentOf(log[i].doc), p), NodeAt(FreshContent(i), p), e)

\* C9: a node whose file name the write-back changed has the transform URL made
\* of the previous URL up to its last '/' and the new name, and of the new name
\* alone when the previous URL has no '/'.
C9_TransformUrlDerived ==
    \A i \in PatchRecords : \A p \in ImagePaths(FreshContent(i)) :
        LET old == NodeAt(FreshContent(i), p)
            new == NodeAt(ContentOf(log[i].doc), p)
        IN NameOf(new) # NameOf(old) =>
               UrlOf(new) = JStr(UrlBase(UrlOf(old).s) \o NameOf(new).s)

\* C10: a node patched for an edit of the file name to X has the name X and,
\* when the previous transform URL had a '/', a URL that ends in '/' and X;
\* its alt text is that of the fetched story when only the name was edited.
C10_PatchRoundTrip ==
    \A i \in PatchRecords : \A e \in EditsOf(i) :
        \A p \in Targets(FreshContent(i), e) :
            LET old == NodeAt(FreshContent(i), p)
                new == NodeAt(ContentOf(log[i].doc), p)
            IN (e.name # e.originalName /\ new # old) =>
                   /\ NameOf(new) = JStr(e.name)
                   /\ LastSlash(UrlOf(old).s) # 0 =>
                          EndsWith(UrlOf(new).s, <<"/">> \o e.name)
                   /\ e.alt = e.originalAlt => AltOf(new) = AltOf(old)

\* ------------------------------------------ the tracker and the send button

\* The change tracker of the running script.
Tracker == IF prog = "script" THEN imageModifications ELSE modifiedImages

\* The tracker entries of one story, in a tracker as the running script keeps
\* it.
EntriesOf(mods, s) ==
    IF prog = "script"
    THEN IF MapHas(mods, s) THEN MapGet(mods, s) ELSE <<>>
    ELSE ModsOfStory(mods, s)

\* The write-back did not write story s: its GET or its PUT failed.
WriteFailed(s) ==
    \E j \in 1..Len(log) :
        log[j].m \in {"GET", "PUT"} /\ log[j].story = s /\ ~log[j].ok

\* The write-back wrote story s: its PUT succeeded.
Written(s) == \E j \in PutRecords : log[j].story = s /\ log[j].ok

\* C11: while no write-back runs, the send button is available exactly when
\* the change tracker holds an entry.
C11_SendEnabledIffPending ==
    pc = "idle" => (sendButton <=> Tracker # <<>>)

\* C19: when a write-back has ended, a story whose GET or PUT failed still has
\* the tracker entries it had when the write-back started, is still marked as
\* changed, and the send button is available.
C19_FailedStoryStaysPending ==
    Ended =>
        \A s \in Stories :
            WriteFailed(s) =>
                /\ EntriesOf(Tracker, s) = EntriesOf(startMods, s)
                /\ EntriesOf(Tracker, s) # <<>>
                /\ prog = "script" => SetHas(changedStories, s)
                /\ sendButton

\* C20: when a write-back has ended, a story whose PUT succeeded has no tracker
\* entry left, whatever happened to the other stories of the batch, and the
\* rows of its sent images show their originals.
C20_WrittenStoryNotPending ==
    Ended =>
        \A s \in Stories :
            Written(s) =>
                /\ EntriesOf(Tracker, s) = <<>>
                /\ prog = "script" =>
                       \A r \in 1..Len(rows) :
                           (/\ rows[r].actualStoryId = s
                            /\ MapHas(EntriesOf(startMods, s), rows[r].imageBynderId))
                           => /\ rows[r].originalFileName = rows[r].fileName
                              /\ rows[r].originalAlt = rows[r].alt

\* ------------------------------------------- the locators on content trees
\* A second specification hands content trees of bounded size to the image
\* locator of each script, twice.

MaxDepth == 1
MaxArrayLen == 2

\* An image node that qualifies, a partial match (the tag with an empty image
\* array) and an object that is no image.
Qualifying == ImageWrapper("u", Word("a"), <<"n">>, <<"h", "/", "n">>, <<"x">>)
Partial == JObj(<< <<"component", BynderImage>>, <<"image", JArr(<<>>)>> >>)
Text == JObj(<< <<"component", Word("text")>> >>)

\* Other partial matches: the tag without an image array, with an image array
\* whose first element is null, and with one whose first element is a string.
TagOnly == JObj(<< <<"component", BynderImage>> >>)
NullDescriptor ==
    JObj(<< <<"component", BynderImage>>, <<"image", JArr(<<JNull>>)>> >>)
TextDescriptor ==
    JObj(<< <<"component", BynderImage>>, <<"image", JArr(<<Word("s")>>)>> >>)

\* An object that holds a node as a plain property value, an image node that
\* holds one, and an image node that holds one in an array.
Box(node) == JObj(<< <<"component", Word("box")>>, <<"item", node>> >>)
ImageWith(node) == Put(Qualifying, "caption", node)
Gallery(node) == Put(Qualifying, "gallery", JArr(<<node>>))

\* The nodes nested to depth d.
RECURSIVE Nodes(_)
Nodes(d) ==
    IF d = 0 THEN {Qualifying, Partial, Text}
    ELSE Nodes(d - 1) \cup {Box(n) : n \in Nodes(d - 1)}
                      \cup {ImageWith(n) : n \in Nodes(d - 1)}
                      \cup {Gallery(n) : n \in Nodes(d - 1)}

\* What a property or an array position of a page holds: a node, another
\* partial match, or null.
Elements == Nodes(MaxDepth) \cup {TagOnly, NullDescriptor, TextDescriptor, JNull}

\* The arrays of at most MaxArrayLen elements.
Arrays == {JArr(a) : a \in UNION {[1..n -> Elements] : n \in 0..MaxArrayLen}}

\* A page whose body is an element, an array of elements, or an array nested
\* directly in an array.
Page(body) == JObj(<< <<"component", Word("page")>>, <<"body", body>> >>)
Trees ==
    Nodes(MaxDepth)
        \cup {Page(n) : n \in Elements}
        \cup {Page(a) : a \in Arrays}
        \cup {Page(JArr(<<JArr(<<n>>)>>)) : n \in Nodes(MaxDepth)}

InitLocator ==
    /\ prog \in {"script", "part000"}
    /\ server = InitialServer
    /\ storage = JStr(SavedToken)
    /\ NetLoaded
    /\ tree \in Trees
    /\ located = <<>>
    /\ thrown = FALSE
    /\ second = [located |-> <<>>, thrown |-> FALSE]
    /\ Loaded

\* A locator that passes over the nodes an earlier run has returned.
LocatorRunUnseen(t) ==
    [located |-> SelectSeq(extractImages(t),
                           LAMBDA p : \A k \in 1..Len(located) : located[k] # p),
     thrown |-> extractImagesThrows(t)]

\* One call of script.js extractImages: the nodes it returns, or the TypeError
\* it raises.
LocatorRun(t) ==
    [located |-> IF extractImagesThrows(t) THEN <<>> ELSE extractImages(t),
     thrown |-> extractImagesThrows(t)]

\* One call of part_000 extractImagesFromStoryJson({story: {content: t}}, id):
\* the wrappers its records refer to (altTextRef), or the TypeError it raises.
CollectorRun(t) ==
    [located |-> IF collectImagesThrows(t) THEN <<>> ELSE collectImagesRecursive(t),
     thrown |-> collectImagesThrows(t)]

\* script.js extractImages(tree); the function assigns to no part of the tree.
locateImages ==
    /\ prog = "script"
    /\ pc = "idle"
    /\ located' = LocatorRun(tree).located
    /\ thrown' = LocatorRun(tree).thrown
    /\ pc' = "located"
    /\ UNCHANGED <<netVars, busyVars, prog, server, isEditMode, sendButton, rows, cursor, log,
                   startMods, sends, externalEdits, tree, second, scriptVars,
                   partVars>>

\* script.js extractImages(tree), called again.
locateImagesAgain ==
    /\ prog = "script"
    /\ pc = "located"
    /\ second' = LocatorRun(tree)
    /\ pc' = "relocated"
    /\ UNCHANGED <<netVars, busyVars, prog, server, isEditMode, sendButton, rows, cursor, log,
                   startMods, sends, externalEdits, tree, located, thrown,
                   scriptVars, partVars>>

\* part_000 extractImagesFromStoryJson on the tree; the function assigns to no
\* part of the tree.
collectImages ==
    /\ prog = "part000"
    /\ pc = "idle"
    /\ located' = CollectorRun(tree).located
    /\ thrown' = CollectorRun(tree).thrown
    /\ pc' = "located"
    /\ UNCHANGED <<netVars, busyVars, prog, server, isEditMode, sendButton, rows, cursor, log,
                   startMods, sends, externalEdits, tree, second, scriptVars,
                   partVars>>

\* part_000 extractImagesFromStoryJson, called again.
collectImagesAgain ==
    /\ prog = "part000"
    /\ pc = "located"
    /\ second' = CollectorRun(tree)
    /\ pc' = "relocated"
    /\ UNCHANGED <<netVars, busyVars, prog, server, isEditMode, sendButton, rows, cursor, log,
                   startMods, sends, externalEdits, tree, located, thrown,
                   scriptVars, partVars>>

NextLocator ==
    locateImages \/ locateImagesAgain \/ collectImages \/ collectImagesAgain

SpecLocator == InitLocator /\ [][NextLocator]_vars

\* Every node of a tree, as a path.
RECURSIVE AllPaths(_)
AllPaths(v) ==
    {<<>>} \cup UNION {{<<i>> \o p : p \in AllPaths(Children(v)[i])} :
                         i \in 1..Len(Children(v))}

\* The three-part qualification: the tag, a non-empty image array, and a first
\* image element with a non-null identifier.
Qualifies(node) ==
    /\ Get(node, "component") = BynderImage
    /\ Get(node, "image").t = "arr"
    /\ Len(Get(node, "image").a) > 0
    /\ Get(Get(node, "image").a[1], "databaseId") \notin {JUndef, JNull}

\* C8: the locator returns exactly the qualifying nodes of the tree, each
\* once, wherever they sit.
C8_LocatorExact ==
    pc = "located" =>
        /\ {located[k] : k \in 1..Len(located)}
               = {p \in AllPaths(tree) : Qualifies(NodeAt(tree, p))}
        /\ \A k, n \in 1..Len(located) : located[k] = located[n] => k = n

\* A partial match: an object with the image tag that does not qualify, or a
\* null element in an array that holds tagged objects.
IsPartialMatch(t, p) ==
    LET node == NodeAt(t, p)
    IN \/ Get(node, "component") = BynderImage /\ ~Qualifies(node)
       \/ /\ node.t = "arr"
          /\ \E k \in 1..Len(node.a) : node.a[k] = JNull
          /\ \E k \in 1..Len(node.a) : Get(node.a[k], "component") = BynderImage

\* C15: on a tree with a partial match the locator raises no error, returns
\* no partial match, and returns every qualifying node of the tree.
C15_PartialMatchSkipped ==
    (pc = "located" /\ \E p \in AllPaths(tree) : IsPartialMatch(tree, p)) =>
        /\ ~thrown
        /\ \A k \in 1..Len(located) : Qualifies(NodeAt(tree, located[k]))
        /\ \A p \in AllPaths(tree) :
               Qualifies(NodeAt(tree, p)) => \E k \in 1..Len(located) : located[k] = p

RECURSIVE PathBefore(_, _)
PathBefore(p, q) ==
    IF p = <<>> THEN q # <<>>
    ELSE IF q = <<>> THEN FALSE
    ELSE IF Head(p) = Head(q) THEN PathBefore(Tail(p), Tail(q))
    ELSE Head(p) < Head(q)

\* C17: the locator returns the nodes in depth-first pre-order.
C17_PreOrder ==
    pc = "located" =>
        \A k, n \in 1..Len(located) : k < n => PathBefore(located[k], located[n])

\* ------------------------------------------- the API client and its callers
\* A third specification follows the API calls of the handlers that read from
\* the CMS, and the token they send.  A handler runs from a user event, or
\* from the answer to its request, to its next request; while it is
\* suspended there, other events are handled.  The images and their edits are
\* left to the first specification.

MaxOperations == 3
MaxSaves == 1

dataVars == <<server, isEditMode, sendButton, rows, pc, cursor, log, startMods,
              sends, externalEdits, scriptVars, partVars, locatorVars, busyVars>>

\* String.prototype.trim()
RECURSIVE TrimStart(_), TrimEnd(_)
TrimStart(s) == IF s # <<>> /\ IsSpace(Head(s)) THEN TrimStart(Tail(s)) ELSE s
TrimEnd(s) ==
    IF s # <<>> /\ IsSpace(s[Len(s)]) THEN TrimEnd(SubSeq(s, 1, Len(s) - 1)) ELSE s
Trim(s) == TrimEnd(TrimStart(s))

\* What the user leaves in the token input before saving: nothing, or a token
\* with blanks around it.
TypedTokens == {<<>>, <<" ", "n", " ">>}

\* A save that leaves the stored item as it is.
KeptItem(value) == storage

\* localStorage.setItem(KEY, value): the item stored.
setItem(value) == JStr(value)

\* The CMS's answer to the list request for one page (per_page=100): the ids
\* of its stories.
StoriesPage(page) == IF page = 1 THEN <<1, 2>> ELSE <<>>

\* Array.prototype.sort of a list of stories, which the model lists by id.
RECURSIVE Sorted(_)
Sorted(list) ==
    IF list = <<>> THEN <<>>
    ELSE LET m == CHOOSE x \in {list[k] : k \in 1..Len(list)} :
                      \A k \in 1..Len(list) : x <= list[k]
             at == CHOOSE k \in 1..Len(list) :
                       list[k] = m /\ \A j \in 1..(k - 1) : list[j] # m
         IN <<m>> \o Sorted([k \in 1..(Len(list) - 1) |->
                                IF k < at THEN list[k] ELSE list[k + 1]])

Endpoint(what, n) == [what |-> what, n |-> n]

\* A page loop that asks for the same page again.
SamePage(page) == page

\* page++ (script.js lines 268 and 422, part_000 line 407)
NextPage(page) == page + 1

\* A handler with the state it acts on: S.h is the handler (its operation
\* number run, its position at, its locals), the rest is what it may change.
Bundle(h) ==
    [h |-> h, ui |-> ui, shown |-> shown, calls |-> calls, started |-> started]

\* A handler started by a user event.
Handler(kind, at, story) ==
    [run |-> started + 1, kind |-> kind, at |-> at, story |-> story, page |-> 1,
     got |-> <<>>, rest |-> <<>>, gen |-> ui.gen, call |-> 0]

\* The handler of a page without table generations (part_000).
PartHandler(kind, at, story) ==
    [run |-> started + 1, kind |-> kind, at |-> at, story |-> story, page |-> 1,
     got |-> <<>>, rest |-> <<>>, gen |-> 0, call |-> 0]

\* The API call the handler of S makes.  The Authorization header is the
\* token in memory (script.js lines 78 and 114, part_000 line 102).
NewCall(S, e, state) ==
    [run |-> S.h.run, by |-> S.h.kind, endpoint |-> e,
     auth |-> storyblokMapiToken, epoch |-> Len(tokens), state |-> state]

\* alert(...) / showModal(...) / a rendering, by the handler of S.  status: the
\* message carries the HTTP status of a failed call; call: that call.
Show(S, kind, text, status, call) ==
    [S EXCEPT !.shown = Append(@, [run |-> S.h.run, kind |-> kind, text |-> text,
                                   status |-> status, call |-> call])]

Done(S) == [S EXCEPT !.h.at = "done"]

\* The handler of S is suspended at its call, number Len(S.calls) + 1.
Suspended(S, e) ==
    [S EXCEPT !.calls = Append(@, NewCall(S, e, "pending")),
              !.h.call = Len(S.calls) + 1]

\* The handler of S found no token: the call is made without a request.
ShortCircuited(S, e) ==
    [S EXCEPT !.calls = Append(@, NewCall(S, e, "noToken")),
              !.h.call = Len(S.calls) + 1]

\* The state after a step of handler i (0: a handler just started): a handler
\* that has returned is gone.
Commit(S, i) ==
    /\ ui' = S.ui
    /\ shown' = S.shown
    /\ calls' = S.calls
    /\ started' = S.started
    /\ handlers' =
           IF i = 0
           THEN IF S.h.at = "done" THEN handlers ELSE Append(handlers, S.h)
           ELSE IF S.h.at = "done"
           THEN [k \in 1..(Len(handlers) - 1) |->
                    IF k < i THEN handlers[k] ELSE handlers[k + 1]]
           ELSE [handlers EXCEPT ![i] = S.h]

\* The settings panel's save button (script.js lines 232-238, part_000 lines
\* 761-766): the trimmed input becomes the token and is stored.
saveToken(typed) ==
    /\ Len(tokens) <= MaxSaves
    /\ storyblokMapiToken' = Trim(typed)
    /\ storage' = setItem(Trim(typed))
    /\ tokens' = Append(tokens, Trim(typed))
    /\ shown' = Append(shown, [run |-> 0, kind |-> "info", text |-> "token saved",
                              status |-> FALSE, call |-> 0])
    /\ UNCHANGED <<prog, calls, handlers, ui, started, dataVars>>

\* ------------------------------------------------- script.js: the readers

RECURSIVE fetchStoryblokApi(_, _), Resumed(_, _), Rendered(_), Finished(_),
          Expanded(_, _), LoadStarted(_, _, _)

\* script.js fetchStoryblokApi lines 64-81, called by the handler of S: without
\* a token it returns null at once (no request, no alert) and the handler goes
\* on; with one the request is sent and the handler waits.
fetchStoryblokApi(S, e) ==
    IF storyblokMapiToken = <<>>
    THEN Resumed(ShortCircuited(S, e), FALSE)
    ELSE Suspended(S, e)

\* The handler of S goes on after fetchStoryblokApi returned the JSON of the
\* answer (response) or null.
Resumed(S, response) ==
    LET h == S.h
        uuids == RelatedStoryUuids(ContentOf(server[h.story]))
    IN CASE h.kind = "connect" ->
              \* script.js lines 266-283
              IF response /\ StoriesPage(h.page) # <<>>
              THEN fetchStoryblokApi(
                       [S EXCEPT !.h.got = @ \o StoriesPage(h.page),
                                 !.h.page = NextPage(@)],
                       Endpoint("stories", NextPage(h.page)))
              ELSE Done(Show([S EXCEPT !.ui.storyTree = "built",
                                       !.ui.slugs = Sorted(h.got),
                                       !.ui.connectHidden = TRUE,
                                       !.ui.connectDisabled = FALSE,
                                       !.ui.loading = FALSE],
                             "success", "Successfully connected", FALSE, 0))
         [] h.kind = "table" ->
              \* script.js lines 420-464
              IF response /\ StoriesPage(h.page) # <<>>
              THEN fetchStoryblokApi(
                       [S EXCEPT !.h.got = @ \o StoriesPage(h.page),
                                 !.h.page = NextPage(@)],
                       Endpoint("stories", NextPage(h.page)))
              ELSE IF h.got = <<>>
              THEN Done(Show([S EXCEPT !.ui.note = "No stories found for this path.",
                                       !.ui.table = <<>>,
                                       !.ui.disabled = {},
                                       !.ui.detail = [s \in Stories |-> "none"],
                                       !.ui.stale = (h.gen # S.ui.gen),
                                       !.ui.tableLoading = FALSE],
                             "render", "No stories found for this path.", FALSE, 0))
              ELSE Done(Show([S EXCEPT !.ui.table = @ \o Sorted(h.got),
                                       !.ui.controls = TRUE,
                                       !.ui.stale = @ \/ h.gen # S.ui.gen,
                                       !.ui.tableLoading = FALSE],
                             "render", "main table", FALSE, 0))
         [] h.kind = "images" /\ h.at = "main" ->
              \* script.js lines 491-521
              IF ~response
              THEN Finished(Show(S, "error", "Could not fetch story details.",
                                 FALSE, h.call))
              ELSE IF uuids # <<>>
              THEN fetchStoryblokApi([S EXCEPT !.h.at = "byUuids"],
                                     Endpoint("by_uuids", h.story))
              ELSE Rendered(S)
         [] h.kind = "images" /\ h.at = "byUuids" ->
              \* script.js lines 521-524
              IF response /\ StoriesByUuids(uuids, 1) # <<>>
              THEN fetchStoryblokApi(
                       [S EXCEPT !.h.at = "related",
                                 !.h.got = StoriesByUuids(uuids, 1)],
                       Endpoint("story", StoriesByUuids(uuids, 1)[1]))
              ELSE Rendered(S)
         [] OTHER ->
              \* script.js lines 523-530: the next related story, if any
              IF Len(h.got) > 1
              THEN fetchStoryblokApi([S EXCEPT !.h.got = Tail(@)],
                                     Endpoint("story", h.got[2]))
              ELSE Rendered(S)

\* script.js lines 540-666: the detail row is inserted and filled.  The row
\* goes below the row of the clicked button, and to the top of the table when
\* that row is no longer in it (sectionRowIndex is -1).
Rendered(S) ==
    Finished(Show([S EXCEPT !.ui.detail[S.h.story] = "shown",
                            !.ui.stale = @ \/ S.h.gen # S.ui.gen],
                  "render", "detail row", FALSE, 0))

\* script.js lines 668-671 (the button of the handler's table is enabled
\* again), and, for a load awaited by 'Expand all', line 685: the next button.
Finished(S) ==
    Expanded([S EXCEPT !.ui.disabled =
                           IF S.h.gen = S.ui.gen THEN @ \ {S.h.story} ELSE @],
             S.h.rest)

\* script.js lines 685-693: the loop of 'Expand all' over the buttons left.
Expanded(S, rest) ==
    IF rest = <<>> THEN Done(S)
    ELSE IF S.ui.detail[Head(rest)] # "none"
    THEN Expanded([S EXCEPT !.ui.detail[Head(rest)] = "shown"], Tail(rest))
    ELSE LoadStarted(S, Head(rest), Tail(rest))

\* script.js loadImagesForStory lines 477-491, for a story without a detail
\* row: the button is disabled and the story is requested.
LoadStarted(S, s, rest) ==
    fetchStoryblokApi(
        [S EXCEPT !.started = @ + 1,
                  !.h = [S.h EXCEPT !.run = S.started + 1, !.kind = "images",
                                    !.at = "main", !.story = s, !.got = <<>>,
                                    !.rest = rest],
                  !.ui.disabled = IF S.h.gen = S.ui.gen THEN @ \cup {s} ELSE @],
        Endpoint("story", s))

\* script.js lines 232-238
saveTokenButton ==
    /\ prog = "script"
    /\ \E typed \in TypedTokens : saveToken(typed)

\* script.js lines 242-266: the click on the connect button.
connectButton ==
    /\ prog = "script"
    /\ started < MaxOperations
    /\ ~ui.connectDisabled
    /\ ~ui.connectHidden
    /\ LET S == [Bundle(Handler("connect", "page", 0)) EXCEPT !.started = @ + 1]
       IN IF storyblokMapiToken = <<>>
          THEN Commit(Done(Show(S, "error",
                                "Please save your Storyblok MAPI Token in settings first.",
                                FALSE, 0)), 0)
          ELSE Commit(fetchStoryblokApi(
                          [S EXCEPT !.ui.storyTree = "loading",
                                    !.ui.connectDisabled = TRUE,
                                    !.ui.loading = TRUE],
                          Endpoint("stories", 1)), 0)
    /\ UNCHANGED <<prog, storage, storyblokMapiToken, tokens, dataVars>>

\* script.js lines 359-372 and 392-420: the click on a node of the story tree,
\* which starts loadMainTable.
storyTreeClick ==
    /\ prog = "script"
    /\ started < MaxOperations
    /\ ui.storyTree = "built"
    /\ ui.slugs # <<>>
    /\ LET S == [Bundle(Handler("table", "page", 0)) EXCEPT
                     !.started = @ + 1,
                     !.h.gen = ui.gen + 1,
                     !.ui = [ui EXCEPT !.table = <<>>, !.note = "",
                                       !.gen = @ + 1, !.disabled = {},
                                       !.detail = [s \in Stories |-> "none"],
                                       !.controls = FALSE, !.stale = FALSE,
                                       !.tableLoading = TRUE]]
       IN Commit(fetchStoryblokApi(S, Endpoint("stories", 1)), 0)
    /\ UNCHANGED <<prog, storage, storyblokMapiToken, tokens, dataVars>>

\* script.js lines 469-491: the click on the Get Images button of a story.  An
\* existing detail row is shown or hidden; otherwise the story is loaded.
getImagesButton(s) ==
    /\ prog = "script"
    /\ started < MaxOperations
    /\ \E k \in 1..Len(ui.table) : ui.table[k] = s
    /\ s \notin ui.disabled
    /\ LET S == Bundle(Handler("images", "main", s))
       IN IF ui.detail[s] # "none"
          THEN Commit(Done([S EXCEPT !.started = @ + 1,
                                     !.ui.detail[s] =
                                         IF @ = "shown" THEN "hidden" ELSE "shown"]),
                      0)
          ELSE Commit(LoadStarted(S, s, <<>>), 0)
    /\ UNCHANGED <<prog, storage, storyblokMapiToken, tokens, dataVars>>

\* script.js lines 676-699: 'Expand all' / 'Collapse all'.
toggleAllDetailsButton ==
    /\ prog = "script"
    /\ started < MaxOperations
    /\ ui.controls
    /\ LET S == [Bundle(Handler("images", "main", 0)) EXCEPT !.started = @ + 1]
           allGetImageButtons == SelectSeq(ui.table, LAMBDA s : s \notin ui.disabled)
           areAllCollapsed == \A s \in Stories : ui.detail[s] # "shown"
       IN IF areAllCollapsed
          THEN Commit(Expanded(S, allGetImageButtons), 0)
          ELSE Commit(Done([S EXCEPT !.ui.detail =
                                [s \in Stories |->
                                    IF ui.detail[s] = "shown" THEN "hidden"
                                    ELSE ui.detail[s]]]), 0)
    /\ UNCHANGED <<prog, storage, storyblokMapiToken, tokens, dataVars>>

\* script.js fetchStoryblokApi lines 83-93: the request of handler i is
\* answered.  A response that is not ok is alerted with its status and null
\* is returned to the handler.
fetched(i, kind, ok) ==
    /\ prog = "script"
    /\ i \in 1..Len(handlers)
    /\ handlers[i].kind = kind
    /\ LET c == handlers[i].call
           S == [Bundle(handlers[i]) EXCEPT
                    !.calls[c].state = IF ok THEN "ok" ELSE "failed"]
       IN Commit(Resumed(IF ok THEN S
                         ELSE Show(S, "error",
                                   "Error connecting to Storyblok: API request failed",
                                   TRUE, c),
                         ok), i)
    /\ UNCHANGED <<prog, storage, storyblokMapiToken, tokens, dataVars>>

\* The answers to the requests of the connect handler, of loadMainTable and of
\* loadImagesForStory.
connectFetched == \E i \in 1..Len(handlers), ok \in BOOLEAN : fetched(i, "connect", ok)
tableFetched == \E i \in 1..Len(handlers), ok \in BOOLEAN : fetched(i, "table", ok)
imagesFetched == \E i \in 1..Len(handlers), ok \in BOOLEAN : fetched(i, "images", ok)

ScriptNet ==
    \/ saveTokenButton
    \/ connectButton
    \/ storyTreeClick
    \/ \E s \in Stories : getImagesButton(s)
    \/ toggleAllDetailsButton
    \/ connectFetched
    \/ tableFetched
    \/ imagesFetched

\* ------------------------------------------------- part_000: the readers

RECURSIVE makeApiRequest(_, _), Continued(_, _)

\* part_000 makeApiRequest lines 94-112, called by the handler of S: without a
\* token it throws at once; with one the request is sent.
makeApiRequest(S, e) ==
    IF storyblokMapiToken = <<>>
    THEN Continued(ShortCircuited(S, e), "noToken")
    ELSE Suspended(S, e)

\* The handler of S goes on after makeApiRequest returned ("ok") or threw: for
\* a response that is not ok, with the status in the message ("status") or,
\* when the body of the response is not JSON, without it ("noStatus").
Continued(S, response) ==
    LET h == S.h
        linkedStoryUuid == LinkedStoryUuid(ContentOf(server[h.story]))
        linked == StoriesByUuids(<<linkedStoryUuid>>, 1)
    IN CASE h.kind = "list" /\ response = "ok" ->
              \* part_000 lines 385-419
              IF StoriesPage(h.page) # <<>>
              THEN makeApiRequest(
                       [S EXCEPT !.ui.allStories = @ \o StoriesPage(h.page),
                                 !.h.page = NextPage(@)],
                       Endpoint("stories", NextPage(h.page)))
              ELSE IF S.ui.allStories = <<>>
              THEN Done(Show([S EXCEPT !.ui.storyList = "none found",
                                       !.ui.listed = <<>>,
                                       !.ui.sidebarLoading = FALSE],
                             "render", "No stories found.", FALSE, 0))
              ELSE Done(Show([S EXCEPT !.ui.allStories = Sorted(@),
                                       !.ui.listed = Sorted(S.ui.allStories),
                                       !.ui.storyList = "rendered",
                                       !.ui.sidebarLoading = FALSE],
                             "success", "Successfully connected and loaded",
                             FALSE, 0))
         [] h.kind = "list" ->
              \* part_000 lines 420-422
              Done(Show([S EXCEPT !.ui.storyList = "error", !.ui.listed = <<>>,
                                  !.ui.sidebarLoading = FALSE],
                        "error", "Failed to fetch stories", response = "status",
                        h.call))
         [] h.kind = "details" /\ response # "ok" ->
              \* part_000 lines 602-605
              Done(Show([S EXCEPT !.ui.imageTable = "error"],
                        "error", "Failed to load story details",
                        response = "status", h.call))
         [] h.kind = "details" /\ h.at = "main" /\ Truthy(linkedStoryUuid) ->
              \* part_000 lines 557-586
              makeApiRequest([S EXCEPT !.h.at = "byUuids"],
                             Endpoint("by_uuids", h.story))
         [] h.kind = "details" /\ h.at = "byUuids" /\ linked # <<>> ->
              \* part_000 lines 587-589
              makeApiRequest([S EXCEPT !.h.at = "sub"], Endpoint("story", linked[1]))
         [] OTHER ->
              \* part_000 line 600
              Done(Show([S EXCEPT !.ui.imageTable = "rendered",
                                  !.ui.current = h.story],
                        "render", "image table", FALSE, 0))

\* part_000 lines 761-766
saveSettingsBtn ==
    /\ prog = "part000"
    /\ \E typed \in TypedTokens : saveToken(typed)

\* part_000 lines 374-384 and 779: the click on the connect button.
connectBtn ==
    /\ prog = "part000"
    /\ started < MaxOperations
    /\ LET S == [Bundle(PartHandler("list", "page", 0)) EXCEPT
                     !.started = @ + 1,
                     !.ui.storyList = "empty",
                     !.ui.listed = <<>>,
                     !.ui.allStories = <<>>,
                     !.ui.sidebarLoading = TRUE]
       IN Commit(makeApiRequest(S, Endpoint("stories", 1)), 0)
    /\ UNCHANGED <<prog, storage, storyblokMapiToken, tokens, dataVars>>

\* part_000 lines 506-509 and 543-557: the click on a story of the list.
storyNameLink(s) ==
    /\ prog = "part000"
    /\ started < MaxOperations
    /\ \E k \in 1..Len(ui.listed) : ui.listed[k] = s
    /\ LET S == [Bundle(PartHandler("details", "main", s)) EXCEPT
                     !.started = @ + 1,
                     !.ui.imageTable = "loading",
                     !.ui.selected = s]
       IN Commit(makeApiRequest(S, Endpoint("story", s)), 0)
    /\ UNCHANGED <<prog, storage, storyblokMapiToken, tokens, dataVars>>

\* part_000 makeApiRequest lines 112-121: the request of handler i is answered.
answered(i, kind, response) ==
    /\ prog = "part000"
    /\ i \in 1..Len(handlers)
    /\ handlers[i].kind = kind
    /\ LET c == handlers[i].call
           S == [Bundle(handlers[i]) EXCEPT
                    !.calls[c].state = IF response = "ok" THEN "ok" ELSE "failed"]
       IN Commit(Continued(S, response), i)
    /\ UNCHANGED <<prog, storage, storyblokMapiToken, tokens, dataVars>>

\* The answers to the requests of fetchAllStories and of loadStoryDetails.
listAnswered ==
    \E i \in 1..Len(handlers), response \in {"ok", "status", "noStatus"} :
        answered(i, "list", response)
detailsAnswered ==
    \E i \in 1..Len(handlers), response \in {"ok", "status", "noStatus"} :
        answered(i, "details", response)

PartNet ==
    \/ saveSettingsBtn
    \/ connectBtn
    \/ \E s \in Stories : storyNameLink(s)
    \/ listAnswered
    \/ detailsAnswered

InitNet ==
    /\ prog \in {"script", "part000"}
    /\ server = InitialServer
    /\ storage \in {JNull, JStr(SavedToken)}
    /\ NetLoaded
    /\ tree = JNull
    /\ located = <<>>
    /\ thrown = FALSE
    /\ second = [located |-> <<>>, thrown |-> FALSE]
    /\ Loaded

NextNet == ScriptNet \/ PartNet

SpecNet == InitNet /\ [][NextNet]_vars

\* The calls that are requests in flight.
InFlight == {c \in 1..Len(calls) : calls[c].state = "pending"}

\* C12: at most one request to the CMS is in flight.
C12_OneRequestInFlight == Cardinality(InFlight) <= 1

\* The alerts and modals that report an error for call c.
ErrorsOf(c) == {k \in 1..Len(shown) : shown[k].kind = "error" /\ shown[k].call = c}

\* C13: for every API call answered with a response that is not ok, an alert
\* with the status code is raised, and the operation that made the call takes
\* none of its later steps: it neither reports success nor renders a result.
C13_NonOkAborts ==
    \A c \in 1..Len(calls) :
        calls[c].state = "failed" =>
            \E k \in ErrorsOf(c) :
                /\ shown[k].status
                /\ \A n \in (k + 1)..Len(shown) :
                       shown[n].run = calls[c].run
                           => shown[n].kind \notin {"success", "render"}

\* C14: a call made without a token sends no request, and a prompt is
\* surfaced for it.
C14_NoTokenPrompts ==
    \A c \in 1..Len(calls) :
        /\ calls[c].auth = <<>> => calls[c].state = "noToken"
        /\ calls[c].state = "noToken" => ErrorsOf(c) # {}

\* C18, as stated: the token in memory is the value stored under the key.
C18_TokenIsStoredValue == JStr(storyblokMapiToken) = storage

\* C18: the token in memory is the value stored under the key, or the empty
\* string while nothing is stored; after a save both are the trimmed input;
\* every request carries the token that was current when it was issued.
C18_TokenMatchesStorage ==
    /\ storyblokMapiToken = StoredToken(storage)
    /\ Len(tokens) > 1 =>
           /\ storyblokMapiToken \in {Trim(typed) : typed \in TypedTokens}
           /\ storage = JStr(storyblokMapiToken)
    /\ tokens[Len(tokens)] = storyblokMapiToken
    /\ \A c \in 1..Len(calls) :
           /\ calls[c].auth = tokens[calls[c].epoch]
           /\ calls[c].state # "noToken" => calls[c].auth # <<>>

\* A request issued after a save carries the saved token, trimmed.
C18_Witness ==
    \E c \in InFlight :
        /\ calls[c].epoch = 2
        /\ calls[c].auth = <<"n">>
        /\ storage = JStr(<<"n">>)

\* --------------------------------------------- the body of the write-back

\* The stories with a non-empty entry in imageModifications.
StoriesWithEntries ==
    {s \in Stories : MapHas(imageModifications, s)
                     /\ MapGet(imageModifications, s) # <<>>}

\* C25: in script.js, changedStories holds exactly the stories that have a
\* non-empty entry in imageModifications.
C25_ChangedStoriesMatchTracker ==
    prog = "script" =>
        {changedStories[k] : k \in 1..Len(changedStories)} = StoriesWithEntries

\* C26: every PUT is for a story in whose fetched copy the node of at least
\* one of its pending edits is present.
C26_NoPutWithoutAppliedEdit ==
    \A i \in PutRecords :
        \E k \in 1..Len(log[i].mods) :
            Targets(FreshContent(i), EditOf(log[i].mods[k])) # {}

\* The image node with its name, alt text and transform URL blanked.
Blanked(imageObj) ==
    WithUrl(WithName(Put(imageObj, "alt", JStr(<<>>)), <<>>), <<>>)

\* The content with the image nodes at a set of paths blanked.
RECURSIVE BlankedAt(_, _)
BlankedAt(content, paths) ==
    IF paths = {} THEN content
    ELSE LET p == CHOOSE q \in paths : TRUE
         IN BlankedAt(ReplaceAt(content, p, Blanked(NodeAt(content, p))),
                      paths \ {p})

\* The image nodes of the fetched story of PUT record i that carry the
\* identifier of one of its pending edits.
EditedPaths(i) ==
    LET content == FreshContent(i)
        paths == extractImages(content)
        edits == EditsOf(i)
    IN {paths[k] : k \in {n \in 1..Len(paths) :
                              \E e \in edits : Carries(NodeAt(content, paths[n]), e)}}

\* C27: the body of every PUT is the document the preceding GET of the story
\* returned, except for the name, the alt text and the transform URL of the
\* image nodes with pending edits.
C27_PutKeepsOtherFields ==
    \A i \in PutRecords :
        /\ FetchesBefore(i) # {}
        /\ LET fresh == FreshStory(i)
               edited == EditedPaths(i)
           IN /\ Put(log[i].doc, "content", JNull) = Put(fresh, "content", JNull)
              /\ BlankedAt(ContentOf(log[i].doc), edited)
                     = BlankedAt(ContentOf(fresh), edited)

\* C27 happens: a PUT whose body differs from the fetched document, for a
\* story that has an image node without a pending edit.
C27_Witness ==
    \E i \in PutRecords :
        /\ FetchesBefore(i) # {}
        /\ log[i].doc # FreshStory(i)
        /\ EditedPaths(i) # ImagePaths(FreshContent(i))

\* ------------------------------------------ the locator and the re-locator

\* An identifier made of a path.
PathId(p) == JStr(<<"i">> \o [k \in 1..Len(p) |-> Digits[p[k] + 1]])

\* The tree below path p with the databaseId and the _uid of every qualifying
\* node replaced by the identifier of its path, so that no two nodes share one.
RECURSIVE Relabelled(_, _)
Relabelled(v, p) ==
    IF ~IsObjectLike(v) THEN v
    ELSE LET below ==
                 IF v.t = "arr"
                 THEN JArr([i \in 1..Len(v.a) |-> Relabelled(v.a[i], p \o <<i>>)])
                 ELSE JObj([i \in 1..Len(v.o) |->
                              <<v.o[i][1], Relabelled(v.o[i][2], p \o <<i>>)>>])
         IN IF Qualifies(v)
            THEN Put(WithDescriptor(below,
                                    Put(Descriptor(below), "databaseId", PathId(p))),
                     "_uid", PathId(p))
            ELSE below

\* The modification part_000 records for an edit of the alt text of a wrapper.
AltEdit(imageWrapper) ==
    [storyId |-> 1, uid |-> UidOf(imageWrapper),
     altText |-> <<"z">>, originalAlt |-> AltOf(imageWrapper).s,
     fileName |-> NameOf(imageWrapper).s,
     originalFileName |-> NameOf(imageWrapper).s]

\* C28: for every node the locator returns for a tree whose image nodes have
\* identifiers of their own, the write-back lookup with that node's identifier
\* finds that node: script.js returns it, part_000 patches it.
C28_RelocatorFindsLocated ==
    (pc = "located" /\ ~thrown) =>
        LET t == Relabelled(tree, <<>>)
        IN \A k \in 1..Len(located) :
               LET node == NodeAt(t, located[k])
               IN IF prog = "script"
                  THEN findImageInStoryContentById(t, IdOf(node)) = <<located[k]>>
                  ELSE NodeAt(updateImageRecursive(t, AltEdit(node)), located[k])
                           = WithAlt(node, <<"z">>)

\* ------------------------------------------------ selections and listings

\* The handlers of some kinds that are suspended.
Suspending(kinds) == {i \in 1..Len(handlers) : handlers[i].kind \in kinds}

\* C29: once the loads have completed, what is displayed belongs to the
\* selection made last: in script.js the table shows no row made for an earlier
\* path, in part_000 the image table is that of the story clicked last.
C29_LatestSelectionShown ==
    IF prog = "script"
    THEN Suspending({"table", "images"}) = {} => ~ui.stale
    ELSE (Suspending({"details"}) = {} /\ ui.imageTable = "rendered")
             => ui.current = ui.selected

\* The handlers that list stories page by page, and the runs of each.
Listings == {"connect", "table", "list"}
ListingRuns == {calls[c].run : c \in {n \in 1..Len(calls) : calls[n].by \in Listings}}

\* The calls of a run, in the order they were made.
CallsOf(run) == SelectSeq(calls, LAMBDA c : c.run = run)

\* The listing has come to its end.
ListingsEnded == Suspending(Listings) = {}

\* The listing requests pages 1, 2, 3, ... in order, each once, and goes on
\* only after a page that was returned and is not empty; the loading indicator
\* of a listing is hidden when none is running.
PagesInOrder ==
    /\ \A run \in ListingRuns :
           \A k \in 1..Len(CallsOf(run)) :
               /\ CallsOf(run)[k].endpoint = Endpoint("stories", k)
               /\ k < Len(CallsOf(run)) =>
                      /\ CallsOf(run)[k].state = "ok"
                      /\ StoriesPage(k) # <<>>
    /\ ListingsEnded =>
           IF prog = "script" THEN ~ui.loading /\ ~ui.tableLoading
           ELSE ~ui.sidebarLoading

\* The listings alone, with every request answered in the end: fetch settles
\* each request, with a response or with an error.
NextListing ==
    \/ saveTokenButton
    \/ connectButton
    \/ storyTreeClick
    \/ connectFetched
    \/ tableFetched
    \/ saveSettingsBtn
    \/ connectBtn
    \/ listAnswered

\* A request of a handler of the kind is settled by the step.
Settled(kind) ==
    \E i \in Suspending({kind}) : calls'[handlers[i].call].state # "pending"

\* Weak fairness of the answers to the handlers of a kind: WF_vars of the
\* answering action, with its enabling condition, that a handler of the kind
\* is suspended at a request, written out.
AnswersArrive(kind) ==
    []<>(Suspending({kind}) = {}) \/ []<><<Settled(kind)>>_vars

SpecListing ==
    /\ InitNet
    /\ [][NextListing]_vars
    /\ AnswersArrive("connect")
    /\ AnswersArrive("table")
    /\ AnswersArrive("list")

\* C30: the paginated listing requests the pages in order, each once, stops at
\* the first page that is empty or fails, hides its loading indicator, and
\* terminates when its requests are answered.
C30_ListingTerminates == []PagesInOrder /\ <>[]ListingsEnded

\* C30 happens: a listing has read a non-empty page and an empty one, and has
\* ended with its indicator hidden.
C30_Witness ==
    /\ ListingsEnded
    /\ \E run \in ListingRuns :
           /\ Len(CallsOf(run)) = 2
           /\ CallsOf(run)[2].state = "ok"
    /\ IF prog = "script" THEN ~ui.loading /\ ~ui.tableLoading
       ELSE ~ui.sidebarLoading

\* ------------------------------------------- images that share an identifier

\* A CMS in which identifiers repeat: the two image blocks of story 1 are
\* copies of one block (the same _uid, the same asset 'a') that differ in the
\* name and alt text shown, and story 2, the product story 1 links, shows
\* that asset as well.
TwinServer ==
    [s \in Stories |->
        IF s = 1
        THEN StoryDoc(1, "uuid-1", JObj(<<
                 <<"component", Word("product_detail_page")>>,
                 <<"product", Word("uuid-2")>>,
                 <<"body", JArr(<<
                     ImageWrapper("u1", Word("a"), <<"o">>, <<"h", "/", "o">>, <<"x">>),
                     ImageWrapper("u1", Word("a"), <<"p">>, <<"h", "/", "p">>, <<"y">>)
                   >>)>> >>))
        ELSE StoryDoc(2, "uuid-2", JObj(<<
                 <<"component", Word("product")>>,
                 <<"body", JArr(<<
                     ImageWrapper("u3", Word("a"), <<"q">>, <<"h", "/", "q">>, <<"x">>)
                   >>)>> >>))]

InitTwins ==
    /\ prog \in {"script", "part000"}
    /\ server = TwinServer
    /\ storage = JStr(SavedToken)
    /\ NetLoaded
    /\ tree = JNull
    /\ located = <<>>
    /\ thrown = FALSE
    /\ second = [located |-> <<>>, thrown |-> FALSE]
    /\ Loaded

\* The CMS is edited by this tool only.
NextTwins == ScriptNext \/ PartNext

SpecTwins == InitTwins /\ [][NextTwins]_vars

\* The image locator of the running script.
Locate(content) ==
    IF prog = "script" THEN extractImages(content) ELSE collectImagesRecursive(content)

\* The story that holds the rows around row r: the story of the detail row in
\* script.js, the current story in part_000.
ParentOf(r) ==
    IF prog = "script" THEN rows[r].parentStoryId ELSE Get(currentStoryData, "id").n

\* The image node row r was made from, as [story, path]: the rows of a parent
\* are made in order from the images of the parent story, then from those of
\* the story it links (script.js lines 498-532, part_000 lines 560-600).  A
\* write-back leaves the number and the places of the image nodes unchanged.
RowSource(r) ==
    LET parent == ParentOf(r)
        k == Cardinality({q \in 1..r : ParentOf(q) = parent})
        own == Locate(ContentOf(server[parent]))
        linked == StoriesByUuids(RelatedStoryUuids(ContentOf(server[parent])), 1)
    IN IF k <= Len(own) THEN [story |-> parent, path |-> own[k]]
       ELSE [story |-> linked[1],
             path |-> Locate(ContentOf(server[linked[1]]))[k - Len(own)]]

\* The story recorded for row r.
RecordedStory(r) ==
    IF prog = "script" THEN rows[r].actualStoryId ELSE rows[r].storyId

\* C24: the story recorded for an image row is the story the image was
\* extracted from.
C24_RowStoryIsSource ==
    \A r \in 1..Len(rows) : RecordedStory(r) = RowSource(r).story

\* Row r shows a value the user set: it differs from the value the row was
\* made with.
RowEdited(r) ==
    IF prog = "script"
    THEN \/ rows[r].fileName # rows[r].originalFileName
         \/ rows[r].alt # rows[r].originalAlt
    ELSE \/ rows[r].fileName # DatasetString(currentStoryImages[r].fileName).s
         \/ rows[r].altText # DatasetString(currentStoryImages[r].alt).s

\* The image nodes of story s whose row the user edited.
EditedNodes(s) ==
    {RowSource(r).path : r \in {q \in 1..Len(rows) :
                                    RowEdited(q) /\ RowSource(q).story = s}}

\* The image nodes the patch logged at i changed.
PatchedNodes(i) ==
    LET fresh == FreshContent(i)
        paths == Locate(fresh)
    IN {paths[k] : k \in {n \in 1..Len(paths) :
            NodeAt(ContentOf(log[i].doc), paths[n]) # NodeAt(fresh, paths[n])}}

\* The patches made for the PUT that is awaited: the rows still show what
\* the user set.
AwaitedPatches ==
    IF pc # "awaitPut" THEN {}
    ELSE IF prog = "script" THEN {Len(log)}
    ELSE PatchRecords

\* Row r has an entry in the tracker, under the key of the row.
Tracked(r) ==
    IF prog = "script"
    THEN /\ MapHas(imageModifications, rows[r].actualStoryId)
         /\ MapHas(MapGet(imageModifications, rows[r].actualStoryId),
                   rows[r].imageBynderId)
    ELSE MapHas(modifiedImages, UniqueKey(rows[r].storyId, rows[r].uid))

\* C23: the write-back changes an image node only if the user edited the row
\* of that node, also when two nodes share an identifier, and while no
\* write-back runs the edit a row shows is pending in the tracker whatever
\* happened on the row of its twin.
C23_OnlyEditedNodePatched ==
    /\ \A i \in AwaitedPatches : PatchedNodes(i) \subseteq EditedNodes(log[i].story)
    /\ pc = "idle" => \A r \in 1..Len(rows) : RowEdited(r) => Tracked(r)

\* ---------------------------------------- the user during a write-back
\* A further specification lets the user act while a write-back is suspended
\* at a request: the inputs of the rows stay editable, and the send button can
\* be clicked whenever it is shown and enabled.

\* The edits and the clicks of this kind that are followed.
MaxLateEdits == 1
MaxOverlaps == 1

\* The write-back is suspended at a request.
Awaiting == pc \in {"awaitGet", "awaitPut", "awaitStory", "awaitReload"}

\* An edit as the history keeps it: the story and the identifier the row
\* records, the field and the value typed.
LateEdit(story, id, field, value) ==
    [story |-> story, id |-> id, field |-> field, value |-> value, at |-> pc]

\* script.js handleInputChange while the click handler of the send button is
\* suspended: the user types a new value into an input of row r.
lateInputChange(r, field, value) ==
    /\ Awaiting
    /\ Len(late) < MaxLateEdits
    /\ overlap = <<>>
    /\ InputChanged(r, field, value)
    /\ late' = Append(late, LateEdit(rows[r].actualStoryId, rows[r].imageBynderId,
                                     field, value))
    /\ UNCHANGED overlap

\* part_000 handleCellChange while sendModificationsToServer is suspended.
lateCellChange(r, field, value) ==
    /\ Awaiting
    /\ Len(late) < MaxLateEdits
    /\ overlap = <<>>
    /\ CellChanged(r, field, value)
    /\ late' = Append(late, LateEdit(rows[r].storyId, rows[r].uid, field, value))
    /\ UNCHANGED overlap

\* script.js lines 724-750: a click on the send button while an earlier click
\* handler is suspended.  The button is not hidden during a write-back and the
\* handler has no guard: it copies changedStories and requests the first
\* story that has modifications.  The sequence this starts is followed up to
\* that request.
sendAgain ==
    /\ prog = "script"
    /\ Awaiting
    /\ sendButton
    /\ Len(overlap) < MaxOverlaps
    /\ changedStories # <<>>
    /\ LET toProcess == StoriesToProcess(changedStories)
           next == NextToProcess(toProcess, 1, changedStories, imageModifications)
       IN /\ changedStories' = next.changed
          /\ overlap' = Append(overlap,
                 [storiesToProcess |-> toProcess, cursor |-> next.cursor,
                  story |-> IF next.cursor = 0 THEN 0 ELSE toProcess[next.cursor],
                  during |-> pc])
    /\ UNCHANGED <<netVars, locatorVars, late, prog, server, isEditMode, sendButton,
                   rows, detailRows, imageModifications, allLoadedStoriesContent,
                   storiesToProcess, storyToUpdate, successCount, failCount, pc,
                   cursor, log, startMods, sends, externalEdits, partVars>>

\* part_000 lines 639-656: a click on the send button while an earlier call
\* of sendModificationsToServer is suspended.  The button was disabled by that
\* call (line 646); handleCellChange enables it again (line 354).
sendModificationsAgain ==
    /\ prog = "part000"
    /\ Awaiting
    /\ sendButton
    /\ Len(overlap) < MaxOverlaps
    /\ modifiedImages # <<>>
    /\ sendButton' = FALSE
    /\ overlap' = Append(overlap,
           [storiesToProcess |-> <<>>, cursor |-> 1,
            story |-> modifiedImages[1][2].storyId, during |-> pc])
    /\ UNCHANGED <<netVars, locatorVars, late, prog, server, isEditMode, rows,
                   currentStoryData, currentStoryImages, modifiedImages,
                   storiesToUpdate, hasErrors, pc, cursor, log, startMods, sends,
                   externalEdits, scriptVars>>

\* The story whose images the user loads: story 1, with the story it links.
Selected == {1}

\* The images are loaded without failures and the user types new values,
\* between write-backs and during one.
ScriptBusy ==
    \/ \E s \in Selected : loadImagesForStory(s, "ok")
    \/ toggleEditModeButton
    \/ \E r \in 1..Len(rows) : handleInputChange(r, "fileName", TypedFileName)
    \/ \E r \in 1..Len(rows) : handleInputChange(r, "alt", TypedAlt)
    \/ sendToServerButton
    \/ \E ok \in BOOLEAN : fetchLatestStory(ok)
    \/ \E ok \in BOOLEAN : putStory(ok)
    \/ closeAlert
    \/ \E r \in 1..Len(rows) : lateInputChange(r, "fileName", TypedFileName)
    \/ \E r \in 1..Len(rows) : lateInputChange(r, "alt", TypedAlt)
    \/ sendAgain

PartBusy ==
    \/ \E s \in Selected : loadStoryDetails(s, "ok")
    \/ toggleEditMode
    \/ \E r \in 1..Len(rows) : handleCellChange(r, "fileName", TypedFileName)
    \/ \E r \in 1..Len(rows) : handleCellChange(r, "altText", TypedAlt)
    \/ sendModificationsToServer
    \/ \E ok \in BOOLEAN : storyResponse(ok)
    \/ \E ok \in BOOLEAN : putResponse(ok)
    \/ reloadStoryDetails("ok")
    \/ closeModal
    \/ \E r \in 1..Len(rows) : lateCellChange(r, "fileName", TypedFileName)
    \/ \E r \in 1..Len(rows) : lateCellChange(r, "altText", TypedAlt)
    \/ sendModificationsAgain

NextBusy == ScriptBusy \/ PartBusy

SpecBusy == Init /\ [][NextBusy]_vars

\* The value of an edit as a write-back stores it: file names are normalised.
Stored(e) ==
    IF e.field = "fileName" THEN {e.value, NormalizeFileName(e.value)} ELSE {e.value}

\* The edit is in the body of a PUT of the write-back: an image node with its
\* identifier shows its value.
InSomePut(e) ==
    \E i \in PutRecords :
        /\ log[i].story = e.story
        /\ \E p \in ImagePaths(ContentOf(log[i].doc)) :
               LET node == NodeAt(ContentOf(log[i].doc), p)
               IN /\ Carries(node, e)
                  /\ IF e.field = "fileName" THEN NameOf(node).s \in Stored(e)
                     ELSE AltOf(node).s \in Stored(e)

\* The edit is in the tracker.
InTracker(e) ==
    IF prog = "script"
    THEN /\ MapHas(imageModifications, e.story)
         /\ MapHas(MapGet(imageModifications, e.story), e.id)
         /\ LET mod == MapGet(MapGet(imageModifications, e.story), e.id)
            IN IF e.field = "fileName" THEN mod.newFileName \in Stored(e)
               ELSE mod.newAlt \in Stored(e)
    ELSE /\ MapHas(modifiedImages, UniqueKey(e.story, e.id))
         /\ MapGet(modifiedImages, UniqueKey(e.story, e.id))[e.field] \in Stored(e)

\* The edits the tracker held when the write-back started, field by field:
\* the values of its entries that differ from the original.
EditsAtStart ==
    IF prog = "script"
    THEN UNION {UNION {LET mod == startMods[k][2][n][2]
                           id == startMods[k][2][n][1]
                       IN (IF mod.newFileName = mod.originalFileName THEN {}
                           ELSE {[story |-> startMods[k][1], id |-> id,
                                  field |-> "fileName", value |-> mod.newFileName,
                                  at |-> "idle"]})
                          \cup
                          (IF mod.newAlt = mod.originalAlt THEN {}
                           ELSE {[story |-> startMods[k][1], id |-> id,
                                  field |-> "alt", value |-> mod.newAlt,
                                  at |-> "idle"]}) :
                       n \in 1..Len(startMods[k][2])} : k \in 1..Len(startMods)}
    ELSE UNION {LET mod == startMods[k][2]
                IN (IF mod.fileName = mod.originalFileName THEN {}
                    ELSE {[story |-> mod.storyId, id |-> mod.uid,
                           field |-> "fileName", value |-> mod.fileName,
                           at |-> "idle"]})
                   \cup
                   (IF mod.altText = mod.originalAlt THEN {}
                    ELSE {[story |-> mod.storyId, id |-> mod.uid,
                           field |-> "altText", value |-> mod.altText,
                           at |-> "idle"]}) :
                k \in 1..Len(startMods)}

LateEdits == {late[k] : k \in 1..Len(late)}

\* C21: when a write-back has ended, every edit the tracker held at its start
\* and every edit made while it was suspended has been sent in the body of a
\* PUT or is still in the tracker.
C21_NoEditLost ==
    Ended => \A e \in EditsAtStart \cup LateEdits : InSomePut(e) \/ InTracker(e)

\* C22: at most one write-back sequence is active: no click on the send button
\* starts a sequence while another one is suspended at a request.
C22_OneSequenceActive == overlap = <<>>

====
